---- MODULE Spec2Model ----
(***************************************************************************)
(* Model of the PostgreSQL query adapter (core/services/supabase.py) and   *)
(* of the sandbox port allocator (core/sandbox/docker_sandbox.py).         *)
(*                                                                         *)
(* A query descriptor is built by chained builder calls and executed once  *)
(* against a connection.  The SQL text is modelled structurally: a WHERE   *)
(* clause is a sequence of condition fragments, each carrying the          *)
(* placeholder numbers it mentions, and the connection interprets the      *)
(* statement it is sent by binding placeholder $i to the i-th parameter.   *)
(***************************************************************************)
EXTENDS Integers, Sequences, FiniteSets, TLC

VARIABLES builder,   \* the PostgresQueryBuilder under construction
          table,     \* rows of the table behind the connection, in heap order
          sent,      \* statements handed to the connection by the last call
          result,    \* what the last execute()/rpc() gave its caller
          phase,     \* "building" | "executed"
          ports,     \* the port allocator's world and its last answer
          docker,    \* the Docker daemon and the sandbox manager's call in progress
          fs,        \* a sandbox container's files and its last file operation
          pg,        \* the PostgresConnection singleton and the tasks calling it
          script     \* a migration script and the statements it was split into

vars == <<builder, table, sent, result, phase, ports, docker, fs, pg, script>>

(***************************************************************************)
(* Bounds of the model.                                                    *)
(***************************************************************************)
MaxFilters == 2      \* filters chained on one builder
MaxVal == 2          \* integer column values are 1..MaxVal
MaxPage == 1         \* limit / offset / range arguments are 0..MaxPage
MaxRows == 2         \* rows of the table in an initial state
MaxCalls == 3        \* pagination and flag calls chained on one builder
MaxPayload == 2      \* rows in one insert / upsert payload
MaxAttempts == 3     \* max_attempts handed to _find_available_port
MaxStart == 2        \* start ports are 1..MaxStart
MaxRuns == 2         \* execute() / rpc() calls in one behaviour of SpecExec
MaxOffset == 1       \* ports start..start+MaxOffset of a service may be free
MaxLines == 2        \* lines of an image pull stream
MaxByte == 1         \* byte values of file contents are 0..MaxByte
MaxOps == 2          \* file and process operations in one behaviour of SpecFs
MaxTasks == 2        \* tasks of the event loop that call the connection
MaxStatements == 2   \* statements of the migration script
MaxText == 5         \* characters of a script handed to _split_sql_statements

(***************************************************************************)
(* Python values.  Every value is a record of the same shape so that any   *)
(* two of them can be compared.                                            *)
(*   int       an integer (v)                                              *)
(*   none      None / SQL NULL                                             *)
(*   nullstr   the string 'null'                                           *)
(*   dict      the mapping {"id": v}                                       *)
(*   jsonstr   the JSON text of {"id": v}                                  *)
(*   jsonnum   the JSON text of the number v                               *)
(*   naive_dt  datetime with clock reading v and tzinfo None               *)
(*   aware_dt  datetime with clock reading v and UTC offset off (hours)    *)
(***************************************************************************)
IntV(n) == [kind |-> "int", v |-> n, off |-> 0]
None == [kind |-> "none", v |-> 0, off |-> 0]
NullStr == [kind |-> "nullstr", v |-> 0, off |-> 0]
DictV(n) == [kind |-> "dict", v |-> n, off |-> 0]
JsonStr(n) == [kind |-> "jsonstr", v |-> n, off |-> 0]
JsonNum(n) == [kind |-> "jsonnum", v |-> n, off |-> 0]
NaiveDt(clock) == [kind |-> "naive_dt", v |-> clock, off |-> 0]
AwareDt(clock, offset) == [kind |-> "aware_dt", v |-> clock, off |-> offset]

Ints == {IntV(n) : n \in 1..MaxVal}
\* Columns of the table the model queries: id is the integer primary key, status
\* a nullable scalar, ts a nullable timestamptz and sandbox a nullable jsonb.
Columns == {"id", "status", "ts", "sandbox"}

\* Optional[int]: <<>> is None, <<n>> is n.
NoInt == <<>>
Some(n) == <<n>>
IsSet(o) == Len(o) > 0

RECURSIVE SeqSum(_)
SeqSum(s) == IF s = <<>> THEN 0 ELSE Head(s) + SeqSum(Tail(s))

RECURSIVE Concat(_)
Concat(ss) == IF ss = <<>> THEN <<>> ELSE Head(ss) \o Concat(Tail(ss))

Elems(s) == {s[i] : i \in 1..Len(s)}

\* The sequence lo, lo+1, ..., lo+n-1 (Python's range(lo, lo+n)).
PyRange(lo, n) == [i \in 1..n |-> lo + i - 1]

(***************************************************************************)
(* PostgresQueryBuilder.__init__                                           *)
(***************************************************************************)
NewBuilder(pool) ==
    [pool |-> pool,
     operation |-> "select",
     count_mode |-> "none",
     filters |-> <<>>,
     order_by |-> <<>>,
     limit_val |-> NoInt,
     offset_val |-> NoInt,
     range_start |-> NoInt,
     range_end |-> NoInt,
     single |-> FALSE,
     maybe_single |-> FALSE,
     data |-> <<>>,
     returning |-> TRUE,
     calls |-> 0,
     runs |-> 0]

\* A filter tuple.  in/not_in carry their list in values, jsonb_eq its key in
\* path (a sequence of characters); the other operators carry value.
FilterItem(op, column, value, values, path) ==
    [op |-> op, column |-> column, value |-> value, values |-> values, path |-> path]

SimpleOps == {"eq", "neq", "gt", "gte", "lt", "lte", "like", "ilike",
              "contains", "contained_by"}

(***************************************************************************)
(* _build_where_clause.  A condition is one SQL fragment: its column, its  *)
(* operator text, the placeholder numbers it mentions in order, and (for   *)
(* the JSONB operator) the key spliced into the text.                      *)
(***************************************************************************)
Cond(column, sql, ph, path) == [column |-> column, sql |-> sql, ph |-> ph, path |-> path]

OpSql(op) ==
    CASE op = "eq" -> "="
      [] op = "neq" -> "!="
      [] op = "gt" -> ">"
      [] op = "gte" -> ">="
      [] op = "lt" -> "<"
      [] op = "lte" -> "<="
      [] op = "like" -> "LIKE"
      [] op = "ilike" -> "ILIKE"
      [] op = "contains" -> "@>"
      [] op = "contained_by" -> "<@"

\* json.dumps(value) if not isinstance(value, str) else value
JsonDumpsUnlessStr(value) ==
    CASE value.kind = "dict" -> JsonStr(value.v)
      [] value.kind = "int" -> JsonNum(value.v)
      [] value.kind = "none" -> NullStr
      [] OTHER -> value

\* FilterCond with the empty-list fragments swapped: an empty in list
\* compiled to TRUE, an empty not_in list to FALSE.
MutFilterCond(f, param_idx) ==
    CASE f.op \in SimpleOps ->
           Cond(f.column, OpSql(f.op), <<param_idx>>, <<>>)
      [] f.op \in {"is", "is_not"} ->
           IF f.value = None
           THEN Cond(f.column, IF f.op = "is" THEN "IS NULL" ELSE "IS NOT NULL", <<>>, <<>>)
           ELSE Cond(f.column, IF f.op = "is" THEN "IS" ELSE "IS NOT", <<param_idx>>, <<>>)
      [] f.op \in {"in", "not_in"} ->
           IF f.values # <<>>
           THEN Cond(f.column, IF f.op = "in" THEN "IN" ELSE "NOT IN",
                     PyRange(param_idx, Len(f.values)), <<>>)
           ELSE Cond("", IF f.op = "in" THEN "TRUE" ELSE "FALSE", <<>>, <<>>)
      [] f.op = "jsonb_eq" ->
           Cond(f.column, "->>=", <<param_idx>>, f.path)

\* The fragment one filter compiles to when the running index is param_idx.
FilterCond(f, param_idx) ==
    CASE f.op \in SimpleOps ->
           Cond(f.column, OpSql(f.op), <<param_idx>>, <<>>)
      [] f.op = "is" ->
           IF f.value = None
           THEN Cond(f.column, "IS NULL", <<>>, <<>>)
           ELSE Cond(f.column, "IS", <<param_idx>>, <<>>)
      [] f.op = "is_not" ->
           IF f.value = None
           THEN Cond(f.column, "IS NOT NULL", <<>>, <<>>)
           ELSE Cond(f.column, "IS NOT", <<param_idx>>, <<>>)
      [] f.op = "not_in" ->
           IF f.values # <<>>
           THEN Cond(f.column, "NOT IN", PyRange(param_idx, Len(f.values)), <<>>)
           ELSE Cond("", "TRUE", <<>>, <<>>)
      [] f.op = "in" ->
           IF f.values # <<>>
           THEN Cond(f.column, "IN", PyRange(param_idx, Len(f.values)), <<>>)
           ELSE Cond("", "FALSE", <<>>, <<>>)
      [] f.op = "jsonb_eq" ->
           Cond(f.column, "->>=", <<param_idx>>, f.path)

\* The parameters one filter appends.
FilterParams(f) ==
    CASE f.op \in {"contains", "contained_by"} -> <<JsonDumpsUnlessStr(f.value)>>
      [] f.op \in SimpleOps \ {"contains", "contained_by"} -> <<f.value>>
      [] f.op \in {"is", "is_not"} -> IF f.value = None THEN <<>> ELSE <<f.value>>
      [] f.op \in {"in", "not_in"} -> f.values
      [] f.op = "jsonb_eq" -> <<f.value>>

\* FilterAdvance with a list filter advancing the index by one only.
MutFilterAdvance(f) ==
    CASE f.op \in SimpleOps \cup {"jsonb_eq", "in", "not_in"} -> 1
      [] f.op \in {"is", "is_not"} -> IF f.value = None THEN 0 ELSE 1

\* What one filter adds to param_idx.
FilterAdvance(f) ==
    CASE f.op \in SimpleOps \cup {"jsonb_eq"} -> 1
      [] f.op \in {"is", "is_not"} -> IF f.value = None THEN 0 ELSE 1
      [] f.op \in {"in", "not_in"} -> Len(f.values)

RECURSIVE WhereLoop(_, _, _, _)
WhereLoop(filters, param_idx, conditions, params) ==
    IF filters = <<>>
    THEN [conditions |-> conditions, params |-> params]
    ELSE LET f == Head(filters)
         IN WhereLoop(Tail(filters), param_idx + FilterAdvance(f),
                      Append(conditions, FilterCond(f, param_idx)),
                      params \o FilterParams(f))

build_where_clause(filters) ==
    IF filters = <<>>
    THEN [conditions |-> <<>>, params |-> <<>>]
    ELSE WhereLoop(filters, 1, <<>>, <<>>)

(***************************************************************************)
(* The connection.  A statement is the structure of the SQL text the       *)
(* builder produced; the connection binds placeholder $i to params[i].     *)
(***************************************************************************)
Stmt(verb) ==
    [verb |-> verb,            \* SELECT, COUNT, INSERT, UPDATE, DELETE, UPSERT, RPC
     conditions |-> <<>>,      \* WHERE fragments, joined by AND
     order_by |-> <<>>,        \* ORDER BY parts: [column, desc]
     limit |-> NoInt,          \* LIMIT n
     offset |-> NoInt,         \* OFFSET n
     columns |-> <<>>,         \* INSERT column list
     placeholders |-> <<>>,    \* VALUES ($1, ...)
     set_parts |-> <<>>,       \* UPDATE SET parts: [column, ph]
     pk |-> "",                \* ON CONFLICT ("pk")
     update_cols |-> <<>>,     \* DO UPDATE SET "c" = EXCLUDED."c"
     returning |-> FALSE]      \* RETURNING *

NullRow == [c \in Columns |-> None]

\* Characters that may appear in a key spliced between single quotes.
SafeChars == {"a", "b", "i", "d", "_", "0", "1"}
SafePath(path) == \A i \in 1..Len(path) : path[i] \in SafeChars

\* asyncpg encodes a parameter for the column it is compared with or stored
\* in; a value of the wrong Python type, or a naive datetime for timestamptz,
\* is rejected.
Accepts(column, value) ==
    \/ value.kind = "none"
    \/ column \in {"id", "status"} /\ value.kind = "int"
    \/ column = "ts" /\ value.kind = "aware_dt"
    \/ column = "sandbox" /\ value.kind = "jsonstr"

\* timestamptz keeps the instant: the clock reading moved to offset 0.
Stored(value) ==
    IF value.kind = "aware_dt" THEN AwareDt(value.v - value.off, 0) ELSE value

\* Whether the server accepts one WHERE fragment with these parameters.
CondValid(c, params) ==
    /\ \A i \in 1..Len(c.ph) : c.ph[i] \in 1..Len(params)
    /\ CASE c.sql \in {"TRUE", "FALSE"} -> TRUE
         [] c.sql \in {"IS NULL", "IS NOT NULL"} -> c.column \in Columns
         [] c.sql \in {"IS", "IS NOT"} -> FALSE          \* IS $n is a syntax error
         [] c.sql \in {"=", "!=", "IN", "NOT IN"} ->
              /\ c.column \in Columns
              /\ \A i \in 1..Len(c.ph) : Accepts(c.column, params[c.ph[i]])
         [] c.sql \in {">", ">=", "<", "<="} ->
              /\ c.column \in {"id", "status", "ts"}
              /\ Accepts(c.column, params[c.ph[1]])
         [] c.sql \in {"LIKE", "ILIKE"} ->
              c.column = "status" /\ Accepts(c.column, params[c.ph[1]])
         [] c.sql \in {"@>", "<@"} ->
              c.column = "sandbox" /\ Accepts(c.column, params[c.ph[1]])
         [] c.sql = "->>=" ->
              c.column = "sandbox" /\ params[c.ph[1]].kind \in {"int", "none"}

\* Whether a row satisfies one WHERE fragment.  A comparison with NULL is
\* unknown, which a WHERE clause treats as false.
CondHolds(c, params, row) ==
    LET x == row[c.column]
        p == Stored(params[c.ph[1]])
        ps == {Stored(params[c.ph[i]]) : i \in 1..Len(c.ph)}
        known == x # None /\ p # None
    IN CASE c.sql = "TRUE" -> TRUE
         [] c.sql = "FALSE" -> FALSE
         [] c.sql = "IS NULL" -> x = None
         [] c.sql = "IS NOT NULL" -> x # None
         [] c.sql \in {"=", "LIKE", "ILIKE", "@>", "<@"} -> known /\ x = p
         [] c.sql = "!=" -> known /\ x # p
         [] c.sql = ">" -> known /\ x.v > p.v
         [] c.sql = ">=" -> known /\ x.v >= p.v
         [] c.sql = "<" -> known /\ x.v < p.v
         [] c.sql = "<=" -> known /\ x.v <= p.v
         [] c.sql = "IN" -> x # None /\ x \in ps
         [] c.sql = "NOT IN" -> x # None /\ x \notin ps /\ None \notin ps
         [] c.sql = "->>=" ->
              \* a key that closes the quote turns the fragment into
              \* whatever follows it: here the tautology ' OR '1'='1
              IF SafePath(c.path)
              THEN known /\ c.path = <<"i", "d">> /\ x.v = p.v
              ELSE TRUE
         [] OTHER -> FALSE

WhereValid(conditions, params) ==
    \A i \in 1..Len(conditions) : CondValid(conditions[i], params)

WhereHolds(conditions, params, row) ==
    \A i \in 1..Len(conditions) : CondHolds(conditions[i], params, row)

RECURSIVE RowsWhere(_, _, _)
RowsWhere(rows, conditions, params) ==
    IF rows = <<>> THEN <<>>
    ELSE IF WhereHolds(conditions, params, Head(rows))
         THEN <<Head(rows)>> \o RowsWhere(Tail(rows), conditions, params)
         ELSE RowsWhere(Tail(rows), conditions, params)

RECURSIVE RowsNotWhere(_, _, _)
RowsNotWhere(rows, conditions, params) ==
    IF rows = <<>> THEN <<>>
    ELSE IF WhereHolds(conditions, params, Head(rows))
         THEN RowsNotWhere(Tail(rows), conditions, params)
         ELSE <<Head(rows)>> \o RowsNotWhere(Tail(rows), conditions, params)

\* ORDER BY: whether row a sorts before row b.  NULLs sort last ascending and
\* first descending; rows equal on every key keep their heap order.
RECURSIVE Before(_, _, _)
Before(a, b, order_by) ==
    IF order_by = <<>> THEN FALSE
    ELSE LET o == Head(order_by)
             x == a[o.column]
             y == b[o.column]
             lt == IF x = None \/ y = None
                   THEN (IF o.desc THEN x = None /\ y # None ELSE x # None /\ y = None)
                   ELSE (IF o.desc THEN x.v > y.v ELSE x.v < y.v)
             same == (x = None /\ y = None) \/ (x # None /\ y # None /\ x.v = y.v)
         IN lt \/ (same /\ Before(a, b, Tail(order_by)))

RECURSIVE InsertSorted(_, _, _)
InsertSorted(row, sorted, order_by) ==
    IF sorted = <<>> THEN <<row>>
    ELSE IF Before(row, Head(sorted), order_by)
         THEN <<row>> \o sorted
         ELSE <<Head(sorted)>> \o InsertSorted(row, Tail(sorted), order_by)

RECURSIVE SortRows(_, _)
SortRows(rows, order_by) ==
    IF rows = <<>> THEN <<>>
    ELSE InsertSorted(rows[Len(rows)], SortRows(SubSeq(rows, 1, Len(rows) - 1), order_by),
                      order_by)

Min(a, b) == IF a < b THEN a ELSE b

\* LIMIT / OFFSET applied to the ordered rows.
Page(rows, limit, offset) ==
    LET skip == IF IsSet(offset) THEN Min(offset[1], Len(rows)) ELSE 0
        rest == SubSeq(rows, skip + 1, Len(rows))
    IN IF IsSet(limit) THEN SubSeq(rest, 1, Min(limit[1], Len(rest))) ELSE rest

\* Every placeholder the statement text mentions, in order of appearance.
StmtPlaceholders(stmt) ==
    CASE stmt.verb = "UPDATE" ->
           [i \in 1..Len(stmt.set_parts) |-> stmt.set_parts[i].ph]
           \o Concat([i \in 1..Len(stmt.conditions) |-> stmt.conditions[i].ph])
      [] stmt.verb \in {"INSERT", "UPSERT", "RPC"} -> stmt.placeholders
      [] OTHER -> Concat([i \in 1..Len(stmt.conditions) |-> stmt.conditions[i].ph])

\* The server takes as many arguments as the statement has parameters.
ArgsMatch(stmt, params) == Elems(StmtPlaceholders(stmt)) = 1..Len(params)

Ids(rows) == {rows[i]["id"] : i \in 1..Len(rows)}
KeyOk(rows) == None \notin Ids(rows) /\ Cardinality(Ids(rows)) = Len(rows)

\* What the connection answers: an error, or the rows returned, the table
\* afterwards and the number of rows in the command tag ("UPDATE 3").
\* why tells a statement the server rejected ("sql") from a connection that
\* failed under it ("connection").
DbError(tbl) == [err |-> TRUE, why |-> "sql", rows |-> <<>>, table |-> tbl, n |-> 0]
DbOkN(rows, tbl, n) == [err |-> FALSE, why |-> "", rows |-> rows, table |-> tbl, n |-> n]
DbOk(rows, tbl) == DbOkN(rows, tbl, Len(rows))

\* The row an INSERT builds: the listed columns bound, the others NULL.
BoundRow(stmt, params) ==
    [c \in Columns |->
        IF \E i \in 1..Len(stmt.columns) : stmt.columns[i] = c
        THEN LET i == CHOOSE i \in 1..Len(stmt.columns) : stmt.columns[i] = c
             IN Stored(params[stmt.placeholders[i]])
        ELSE None]

InsertValid(stmt, params) ==
    /\ stmt.columns # <<>>
    /\ Len(stmt.columns) = Len(stmt.placeholders)
    /\ ArgsMatch(stmt, params)
    /\ \A i \in 1..Len(stmt.columns) :
          /\ stmt.columns[i] \in Columns
          /\ Accepts(stmt.columns[i], params[stmt.placeholders[i]])

DbSelect(stmt, params, tbl) ==
    IF /\ WhereValid(stmt.conditions, params)
       /\ ArgsMatch(stmt, params)
       /\ (IsSet(stmt.limit) => stmt.limit[1] >= 0)
       /\ (IsSet(stmt.offset) => stmt.offset[1] >= 0)
       /\ \A i \in 1..Len(stmt.order_by) : stmt.order_by[i].column \in Columns \ {"sandbox"}
    THEN DbOk(Page(SortRows(RowsWhere(tbl, stmt.conditions, params), stmt.order_by),
                   stmt.limit, stmt.offset), tbl)
    ELSE DbError(tbl)

\* SELECT COUNT(*): one row whose id column holds the count.
DbCount(stmt, params, tbl) ==
    IF WhereValid(stmt.conditions, params) /\ ArgsMatch(stmt, params)
    THEN DbOk(<<[NullRow EXCEPT !["id"] = IntV(Len(RowsWhere(tbl, stmt.conditions, params)))]>>,
              tbl)
    ELSE DbError(tbl)

DbInsert(stmt, params, tbl) ==
    LET row == BoundRow(stmt, params)
    IN IF InsertValid(stmt, params) /\ KeyOk(Append(tbl, row))
       THEN DbOk(IF stmt.returning THEN <<row>> ELSE <<>>, Append(tbl, row))
       ELSE DbError(tbl)

\* INSERT ... ON CONFLICT ("pk") DO UPDATE SET ...: the conflict target must
\* carry a unique constraint (only id does) and the SET list must not be empty.
DbUpsert(stmt, params, tbl) ==
    LET row == BoundRow(stmt, params)
        hit == {i \in 1..Len(tbl) : tbl[i][stmt.pk] = row[stmt.pk]}
        merged(old) == [c \in Columns |->
                          IF c \in Elems(stmt.update_cols) THEN row[c] ELSE old[c]]
    IN IF /\ InsertValid(stmt, params)
          /\ stmt.pk = "id"
          /\ stmt.update_cols # <<>>
          /\ row["id"] # None
       THEN IF hit = {}
            THEN DbOk(IF stmt.returning THEN <<row>> ELSE <<>>, Append(tbl, row))
            ELSE LET i == CHOOSE i \in hit : TRUE
                 IN DbOk(IF stmt.returning THEN <<merged(tbl[i])>> ELSE <<>>,
                         [tbl EXCEPT ![i] = merged(tbl[i])])
       ELSE DbError(tbl)

DbUpdate(stmt, params, tbl) ==
    LET assigned(c) == \E i \in 1..Len(stmt.set_parts) : stmt.set_parts[i].column = c
        newval(c) == LET i == CHOOSE i \in 1..Len(stmt.set_parts) : stmt.set_parts[i].column = c
                     IN Stored(params[stmt.set_parts[i].ph])
        upd(old) == [c \in Columns |-> IF assigned(c) THEN newval(c) ELSE old[c]]
        hits(row) == WhereHolds(stmt.conditions, params, row)
        tbl2 == [i \in 1..Len(tbl) |-> IF hits(tbl[i]) THEN upd(tbl[i]) ELSE tbl[i]]
        valid == /\ stmt.set_parts # <<>>
                 /\ ArgsMatch(stmt, params)
                 /\ WhereValid(stmt.conditions, params)
                 /\ \A i \in 1..Len(stmt.set_parts) :
                       /\ stmt.set_parts[i].column \in Columns
                       /\ Accepts(stmt.set_parts[i].column, params[stmt.set_parts[i].ph])
    IN IF valid /\ KeyOk(tbl2)
       THEN DbOkN(IF stmt.returning
                  THEN [i \in 1..Len(RowsWhere(tbl, stmt.conditions, params)) |->
                           upd(RowsWhere(tbl, stmt.conditions, params)[i])]
                  ELSE <<>>, tbl2, Len(RowsWhere(tbl, stmt.conditions, params)))
       ELSE DbError(tbl)

DbDelete(stmt, params, tbl) ==
    IF WhereValid(stmt.conditions, params) /\ ArgsMatch(stmt, params)
    THEN DbOkN(IF stmt.returning THEN RowsWhere(tbl, stmt.conditions, params) ELSE <<>>,
               RowsNotWhere(tbl, stmt.conditions, params),
               Len(RowsWhere(tbl, stmt.conditions, params)))
    ELSE DbError(tbl)

\* One statement on the connection.  broken: the connection itself fails
\* (network loss, timeout), whatever the statement.
Conn(stmt, params, tbl, broken) ==
    IF broken THEN [DbError(tbl) EXCEPT !.why = "connection"]
    ELSE CASE stmt.verb = "SELECT" -> DbSelect(stmt, params, tbl)
           [] stmt.verb = "COUNT" -> DbCount(stmt, params, tbl)
           [] stmt.verb = "INSERT" -> DbInsert(stmt, params, tbl)
           [] stmt.verb = "UPSERT" -> DbUpsert(stmt, params, tbl)
           [] stmt.verb = "UPDATE" -> DbUpdate(stmt, params, tbl)
           [] stmt.verb = "DELETE" -> DbDelete(stmt, params, tbl)
           [] OTHER -> DbOk(<<>>, tbl)

(***************************************************************************)
(* PostgresQueryResult and the outcome of a call.                          *)
(***************************************************************************)
ListData(rows) == [shape |-> "list", rows |-> rows]
RowData(row) == [shape |-> "row", rows |-> <<row>>]
NoneData == [shape |-> "none", rows |-> <<>>]

\* Python truthiness of the data argument: None and [] are falsy.
Truthy(data) == data.shape # "none" /\ data.rows # <<>>

\* self.data = data or []
PostgresQueryResult(data, count) ==
    [data |-> IF Truthy(data) THEN data ELSE ListData(<<>>), count |-> count]

EmptyResult == PostgresQueryResult(ListData(<<>>), 0)

\* A call returns a value or raises; error names the exception raised:
\* "NotFound" for Exception("No rows found in ..."), "sql" and "connection"
\* for an exception that came out of the connection, "IndexError" for
\* columns[0] of an empty row.  conn_error records that the connection raised
\* during the call (the call logged it), whatever the caller then saw.
ConnErrors == {"sql", "connection"}
Return(value, tbl, stmts) ==
    [outcome |-> "return", error |-> "", conn_error |-> FALSE, value |-> value,
     table |-> tbl, sent |-> stmts]
Raise(error, tbl, stmts) ==
    [outcome |-> "raise", error |-> error, conn_error |-> error \in ConnErrors,
     value |-> EmptyResult, table |-> tbl, sent |-> stmts]

Sent(stmt, params) == [stmt |-> stmt, params |-> params]

(***************************************************************************)
(* _execute_select                                                         *)
(***************************************************************************)
\* The pagination clause: a range wins over limit / offset.
SelectPaging(b) ==
    IF IsSet(b.range_start) /\ IsSet(b.range_end)
    THEN [limit |-> Some(b.range_end[1] - b.range_start[1] + 1),
          offset |-> Some(b.range_start[1])]
    ELSE [limit |-> b.limit_val, offset |-> b.offset_val]

\* SelectResult with single() treated like maybe_single(): no error on an
\* empty result.
MutSelectResult(b, data, count, tbl, stmts) ==
    IF b.single \/ b.maybe_single
    THEN Return(PostgresQueryResult(IF data # <<>> THEN RowData(data[1]) ELSE NoneData,
                                    count), tbl, stmts)
    ELSE Return(PostgresQueryResult(ListData(data), count), tbl, stmts)

\* single / maybe_single handling of the fetched rows.
SelectResult(b, data, count, tbl, stmts) ==
    IF b.single
    THEN IF data = <<>>
         THEN Raise("NotFound", tbl, stmts)
         ELSE Return(PostgresQueryResult(RowData(data[1]), count), tbl, stmts)
    ELSE IF b.maybe_single
         THEN Return(PostgresQueryResult(IF data # <<>> THEN RowData(data[1]) ELSE NoneData,
                                         count), tbl, stmts)
         ELSE Return(PostgresQueryResult(ListData(data), count), tbl, stmts)

execute_select(b, tbl, broken_at) ==
    LET w == build_where_clause(b.filters)
        paging == SelectPaging(b)
        query == [Stmt("SELECT") EXCEPT !.conditions = w.conditions,
                                        !.order_by = b.order_by,
                                        !.limit = paging.limit,
                                        !.offset = paging.offset]
        count_query == [Stmt("COUNT") EXCEPT !.conditions = w.conditions]
        r1 == Conn(query, w.params, tbl, broken_at = 1)
        r2 == Conn(count_query, w.params, tbl, broken_at = 2)
        s1 == <<Sent(query, w.params)>>
        s2 == Append(s1, Sent(count_query, w.params))
    IN IF r1.err THEN Raise(r1.why, tbl, s1)
       ELSE IF b.count_mode = "exact"
            THEN IF r2.err THEN Raise(r2.why, tbl, s2)
                 ELSE SelectResult(b, r1.rows, r2.rows[1]["id"].v, tbl, s2)
            ELSE SelectResult(b, r1.rows, Len(r1.rows), tbl, s1)

(***************************************************************************)
(* Payload processing.  A payload row is an ordered mapping: a sequence of *)
(* [column, value] items.                                                  *)
(***************************************************************************)
Item(column, value) == [column |-> column, value |-> value]
ColumnsOf(row) == [i \in 1..Len(row) |-> row[i].column]
ValuesOf(row) == [i \in 1..Len(row) |-> row[i].value]

\* _execute_insert: dict -> JSON text; datetime -> timezone.utc
InsertValue(v) ==
    CASE v.kind = "dict" -> JsonStr(v.v)
      [] v.kind = "naive_dt" -> AwareDt(v.v, 0)
      [] v.kind = "aware_dt" -> IF v.off = 0 THEN v ELSE AwareDt(v.v - v.off, 0)
      [] OTHER -> v

\* _execute_update: dict -> JSON text; naive datetime tagged, aware one kept
UpdateValue(v) ==
    CASE v.kind = "dict" -> JsonStr(v.v)
      [] v.kind = "naive_dt" -> AwareDt(v.v, 0)
      [] OTHER -> v

\* _execute_upsert: dict -> JSON text; naive datetime tagged, aware one kept
UpsertValue(v) ==
    CASE v.kind = "dict" -> JsonStr(v.v)
      [] v.kind = "naive_dt" -> AwareDt(v.v, 0)
      [] OTHER -> v

InsertQuery(b, row) ==
    [Stmt("INSERT") EXCEPT !.columns = ColumnsOf(row),
                           !.placeholders = [i \in 1..Len(row) |-> i],
                           !.returning = b.returning]

UpsertQuery(b, row) ==
    [Stmt("UPSERT") EXCEPT !.columns = ColumnsOf(row),
                           !.placeholders = [i \in 1..Len(row) |-> i],
                           !.pk = ColumnsOf(row)[1],
                           !.update_cols = Tail(ColumnsOf(row)),
                           !.returning = b.returning]

\* The loop inside a transaction: a failure undoes the rows this call added.
RECURSIVE MutInsertLoop(_, _, _, _, _, _)
MutInsertLoop(b, k, tbl, stmts, results, broken_at) ==
    IF k > Len(b.data)
    THEN Return(PostgresQueryResult(ListData(results), Len(results)), tbl, stmts)
    ELSE LET row == b.data[k]
             processed_values == [i \in 1..Len(row) |-> InsertValue(row[i].value)]
             query == InsertQuery(b, row)
             r == Conn(query, processed_values, tbl, broken_at = k)
             stmts2 == Append(stmts, Sent(query, processed_values))
         IN IF r.err THEN Raise(r.why, SubSeq(tbl, 1, Len(tbl) - (k - 1)), stmts2)
            ELSE MutInsertLoop(b, k + 1, r.table, stmts2, results \o r.rows, broken_at)

\* The per-row loop of _execute_insert: row k of the payload goes out as the
\* k-th statement; the first failure leaves the loop by raising.
RECURSIVE InsertLoop(_, _, _, _, _, _)
InsertLoop(b, k, tbl, stmts, results, broken_at) ==
    IF k > Len(b.data)
    THEN Return(PostgresQueryResult(ListData(results), Len(results)), tbl, stmts)
    ELSE LET row == b.data[k]
             processed_values == [i \in 1..Len(row) |-> InsertValue(row[i].value)]
             query == InsertQuery(b, row)
             r == Conn(query, processed_values, tbl, broken_at = k)
             stmts2 == Append(stmts, Sent(query, processed_values))
         IN IF r.err THEN Raise(r.why, tbl, stmts2)
            ELSE InsertLoop(b, k + 1, r.table, stmts2, results \o r.rows, broken_at)

execute_insert(b, tbl, broken_at) ==
    IF b.data = <<>> THEN Return(EmptyResult, tbl, <<>>)
    ELSE InsertLoop(b, 1, tbl, <<>>, <<>>, broken_at)

RECURSIVE UpsertLoop(_, _, _, _, _, _)
UpsertLoop(b, k, tbl, stmts, results, broken_at) ==
    IF k > Len(b.data)
    THEN Return(PostgresQueryResult(ListData(results), Len(results)), tbl, stmts)
    ELSE LET row == b.data[k]
             processed_values == [i \in 1..Len(row) |-> UpsertValue(row[i].value)]
             query == UpsertQuery(b, row)
             r == Conn(query, processed_values, tbl, broken_at = k)
             stmts2 == Append(stmts, Sent(query, processed_values))
         IN IF row = <<>> THEN Raise("IndexError", tbl, stmts)       \* columns[0]: IndexError
            ELSE IF r.err THEN Raise(r.why, tbl, stmts2)
            ELSE UpsertLoop(b, k + 1, r.table, stmts2, results \o r.rows, broken_at)

execute_upsert(b, tbl, broken_at) ==
    IF b.data = <<>> THEN Return(EmptyResult, tbl, <<>>)
    ELSE UpsertLoop(b, 1, tbl, <<>>, <<>>, broken_at)

\* all_params with the payload values ahead of the filter values.
Mutall_params(where_params, set_params) == set_params \o where_params

\* _execute_update: the list bound to the statement's placeholders
all_params(where_params, set_params) == where_params \o set_params

\* _execute_update: the payload is one mapping, kept as the single element of
\* data; SET placeholders are numbered after the WHERE parameters.
execute_update(b, tbl, broken_at) ==
    IF b.data = <<>> \/ b.data[1] = <<>> THEN Return(EmptyResult, tbl, <<>>)
    ELSE LET w == build_where_clause(b.filters)
             row == b.data[1]
             first == Len(w.params) + 1
             set_parts == [i \in 1..Len(row) |->
                             [column |-> row[i].column, ph |-> first + i - 1]]
             set_params == [i \in 1..Len(row) |-> UpdateValue(row[i].value)]
             query == [Stmt("UPDATE") EXCEPT !.set_parts = set_parts,
                                             !.conditions = w.conditions,
                                             !.returning = b.returning]
             bound == all_params(w.params, set_params)
             r == Conn(query, bound, tbl, broken_at = 1)
             stmts == <<Sent(query, bound)>>
         IN IF r.err THEN Raise(r.why, tbl, stmts)
            ELSE IF b.returning
                 THEN Return(PostgresQueryResult(ListData(r.rows), Len(r.rows)),
                             r.table, stmts)
                 ELSE Return(PostgresQueryResult(ListData(<<>>), r.n), r.table, stmts)

execute_delete(b, tbl, broken_at) ==
    LET w == build_where_clause(b.filters)
        query == [Stmt("DELETE") EXCEPT !.conditions = w.conditions,
                                        !.returning = b.returning]
        r == Conn(query, w.params, tbl, broken_at = 1)
        stmts == <<Sent(query, w.params)>>
    IN IF r.err THEN Raise(r.why, tbl, stmts)
       ELSE IF b.returning
            THEN Return(PostgresQueryResult(ListData(r.rows), Len(r.rows)), r.table, stmts)
            ELSE Return(PostgresQueryResult(ListData(<<>>), r.n), r.table, stmts)

(***************************************************************************)
(* execute: no pool gives an empty result; any exception is logged and     *)
(* raised again.                                                           *)
(***************************************************************************)
execute(b, tbl, broken_at) ==
    IF ~b.pool THEN Return(EmptyResult, tbl, <<>>)
    ELSE CASE b.operation = "select" -> execute_select(b, tbl, broken_at)
           [] b.operation = "insert" -> execute_insert(b, tbl, broken_at)
           [] b.operation = "update" -> execute_update(b, tbl, broken_at)
           [] b.operation = "delete" -> execute_delete(b, tbl, broken_at)
           [] b.operation = "upsert" -> execute_upsert(b, tbl, broken_at)
           [] OTHER -> Return(EmptyResult, tbl, <<>>)

\* PostgresClient.rpc: an exception is logged and an empty result returned.
rpc(pool, params, tbl, broken_at) ==
    LET query == [Stmt("RPC") EXCEPT !.placeholders = [i \in 1..Len(params) |-> i]]
        r == Conn(query, params, tbl, broken_at = 1)
        stmts == <<Sent(query, params)>>
    IN IF ~pool THEN Return(EmptyResult, tbl, <<>>)
       ELSE IF r.err THEN [Return(EmptyResult, tbl, stmts) EXCEPT !.conn_error = TRUE]
       ELSE Return(PostgresQueryResult(ListData(r.rows), Len(r.rows)), tbl, stmts)

(***************************************************************************)
(* Builder calls.  Each returns self, so a chain is a sequence of steps on *)
(* the same builder; calls counts them to keep chains finite.              *)
(***************************************************************************)
Chain(b) ==
    /\ phase = "building"
    /\ builder.calls < MaxCalls
    /\ builder' = [b EXCEPT !.calls = builder.calls + 1]
    /\ UNCHANGED <<table, sent, result, phase, ports, docker, fs, pg, script>>

AddFilter(f) ==
    /\ Len(builder.filters) < MaxFilters
    /\ Chain([builder EXCEPT !.filters = Append(builder.filters, f)])

select(count) ==
    Chain([builder EXCEPT !.operation = "select",
                          !.count_mode = IF count # "none" THEN count ELSE @])

insert(data, returning) ==
    Chain([builder EXCEPT !.operation = "insert", !.data = data,
                          !.returning = (returning # "minimal")])

update(data, returning) ==
    Chain([builder EXCEPT !.operation = "update", !.data = <<data>>,
                          !.returning = (returning # "minimal")])

upsert(data, returning) ==
    Chain([builder EXCEPT !.operation = "upsert", !.data = data,
                          !.returning = (returning # "minimal")])

delete(returning) ==
    Chain([builder EXCEPT !.operation = "delete",
                          !.returning = (returning # "minimal")])

\* eq, neq, gt, gte, lt, lte, like, ilike, contains, contained_by
filter_method(op, column, value) ==
    /\ op \in SimpleOps
    /\ AddFilter(FilterItem(op, column, value, <<>>, <<>>))

is_(column, value) == AddFilter(FilterItem("is", column, value, <<>>, <<>>))

in_(column, values) == AddFilter(FilterItem("in", column, None, values, <<>>))

\* PostgresNotBuilder.is_: the string 'null' stands for None
not_is_(column, value) ==
    AddFilter(FilterItem("is_not", column,
                         IF value = NullStr \/ value = None THEN None ELSE value,
                         <<>>, <<>>))

not_in_(column, values) == AddFilter(FilterItem("not_in", column, None, values, <<>>))

jsonb_eq(jsonb_column, jsonb_path, value) ==
    AddFilter(FilterItem("jsonb_eq", jsonb_column, value, <<>>, jsonb_path))

order(column, desc) ==
    /\ Len(builder.order_by) < MaxFilters
    /\ Chain([builder EXCEPT !.order_by = Append(@, [column |-> column, desc |-> desc])])

limit(count) == Chain([builder EXCEPT !.limit_val = Some(count)])

offset(count) == Chain([builder EXCEPT !.offset_val = Some(count)])

range(start, end) ==
    Chain([builder EXCEPT !.range_start = Some(start), !.range_end = Some(end)])

single == Chain([builder EXCEPT !.single = TRUE, !.limit_val = Some(1)])

maybe_single == Chain([builder EXCEPT !.maybe_single = TRUE, !.limit_val = Some(1)])

(***************************************************************************)
(* execute() on the builder, PostgresClient.rpc, and client.table().       *)
(***************************************************************************)
NoResult == [outcome |-> "none", error |-> "", conn_error |-> FALSE, value |-> EmptyResult]

Finish(r) ==
    /\ builder' = [builder EXCEPT !.runs = @ + 1]
    /\ result' = [outcome |-> r.outcome, error |-> r.error,
                  conn_error |-> r.conn_error, value |-> r.value]
    /\ table' = r.table
    /\ sent' = r.sent
    /\ phase' = "executed"

ExecuteCall ==
    /\ phase = "building"
    /\ builder.runs < MaxRuns
    /\ \E broken_at \in 0..(IF Len(builder.data) > 2 THEN Len(builder.data) ELSE 2) :
          Finish(execute(builder, table, broken_at))
    /\ UNCHANGED <<ports, docker, fs, pg, script>>

RpcCall(params) ==
    /\ phase = "building"
    /\ builder.runs < MaxRuns
    /\ builder.calls = 0
    /\ \E broken_at \in 0..1 : Finish(rpc(builder.pool, params, table, broken_at))
    /\ UNCHANGED <<ports, docker, fs, pg, script>>

\* client.table(name): a fresh builder on the same pool
NewQuery ==
    /\ phase = "executed"
    /\ builder' = [NewBuilder(builder.pool) EXCEPT !.runs = builder.runs]
    /\ phase' = "building"
    /\ sent' = <<>>
    /\ result' = NoResult
    /\ UNCHANGED <<table, ports, docker, fs, pg, script>>

(***************************************************************************)
(* Inputs.                                                                 *)
(***************************************************************************)
IntList(n) == [i \in 1..n |-> IntV(i)]
InLists == {IntList(n) : n \in 0..MaxVal}
FilterValues == Ints \cup {None, NullStr}
IdPath == <<"i", "d">>
QuotePath == <<"a", "'">>
Paths == {IdPath, QuotePath}

TableRow(id, status, ts, sandbox) ==
    [c \in Columns |->
        CASE c = "id" -> id [] c = "status" -> status [] c = "ts" -> ts
          [] c = "sandbox" -> sandbox]

SampleTable ==
    <<TableRow(IntV(1), IntV(1), None, JsonStr(1)),
      TableRow(IntV(2), None, AwareDt(1, 0), None)>>

(***************************************************************************)
(* The port allocator's world: the Docker daemon, its containers and the   *)
(* host's sockets.  A container is its status, the host port it publishes  *)
(* while it is up, and whether reload() on it succeeds.                    *)
(***************************************************************************)
PortUniverse == 1..(MaxStart + MaxAttempts - 1)
Statuses == {"running", "created", "restarting", "paused", "exited"}
\* A container holds its published ports while running, restarting or paused.
UpStatuses == {"running", "restarting", "paused"}

Container(status, host_port, reload_ok) ==
    [status |-> status, host_port |-> host_port, reload_ok |-> reload_ok]

World(daemon_up, containers, bind_lo, bind_any) ==
    [phase |-> "idle",
     daemon_up |-> daemon_up,       \* get_docker_client() and containers.list() succeed
     containers |-> containers,
     bind_lo |-> bind_lo,           \* ports bind(('127.0.0.1', port)) accepts
     bind_any |-> bind_any,         \* ports bind(('0.0.0.0', port)) accepts
     start_port |-> 0,
     max_attempts |-> 0,
     answer |-> NoInt,
     raised |-> FALSE]

PortsIdle == World(TRUE, <<>>, PortUniverse, PortUniverse)

(***************************************************************************)
(* The sandbox manager's world: the Docker daemon with its image store and *)
(* containers, the host's sockets, and the frame of the manager call in    *)
(* progress (create_sandbox, get_or_start_sandbox, delete_sandbox).        *)
(***************************************************************************)
Names == {"a", "b"}

\* The host ports create_sandbox asks for, by service: 6080/tcp, 8888/tcp,
\* 9222/tcp and 8004/tcp.
Services == 1..4
port_6080 == 6080
port_8080 == 8888
port_9222 == 9222
port_8004 == 9004
\* ServiceStart with the fourth service scanning from the second one's base.
MutServiceStart(i) ==
    CASE i = 1 -> port_6080
      [] i = 2 -> port_8080
      [] i = 3 -> port_9222
      [] i = 4 -> port_8080

\* create_sandbox: the base port each service's scan starts from
ServiceStart(i) ==
    CASE i = 1 -> port_6080
      [] i = 2 -> port_8080
      [] i = 3 -> port_9222
      [] i = 4 -> port_8004

\* max_attempts when the caller passes none
DefaultMaxAttempts == 100
\* max_retries of the readiness poll
max_retries == 30

\* The host ports that may be free in a world: the first ones of each
\* service's window.  Every other port is taken by some other process.
SandboxPorts == UNION {{ServiceStart(i) + k : k \in 0..MaxOffset} : i \in Services}

NoContainer == [status |-> "absent", host_ports |-> {}]

\* The frame of a manager call that has not started.
NoFrame ==
    [pc |-> "idle",          \* "idle" | "polling" | "done"
     op |-> "none",          \* "create" | "get_or_start" | "delete"
     target |-> "",          \* the container name / id the call is about
     status_seen |-> "",     \* container.status as the lookup read it
     pull |-> <<>>,          \* the pull stream the call consumed, <<stream>> if any
     port_map |-> <<>>,      \* host ports handed to containers.run
     log |-> <<>>,           \* Docker calls issued, in order
     attempt |-> 0,          \* readiness probes made
     ready |-> FALSE,        \* what _wait_for_container_ready returned
     outcome |-> "none",     \* "return" | "raise"
     value |-> "",           \* what was returned, or the kind of error raised
     api_error |-> FALSE,    \* ghost: a Docker call failed for a reason of its own
     probe_raised |-> FALSE] \* ghost: a readiness probe raised

Daemon(client, daemon_up, image, containers, free_lo, free_any) ==
    [client |-> client,           \* the _docker_client singleton is set
     pinged |-> client,           \* a ping() on the singleton has succeeded
     daemon_up |-> daemon_up,     \* docker.from_env() and ping() succeed
     image |-> image,             \* the sandbox image is present locally
     containers |-> containers,   \* name -> status and published host ports
     free_lo |-> free_lo,         \* ports bind(('127.0.0.1', port)) accepts
     free_any |-> free_any,       \* ports bind(('0.0.0.0', port)) accepts
     frame |-> NoFrame,
     earlier |-> NoFrame]         \* the call of a task suspended in its poll
                                  \* while another task's call runs

PullLines == {[late |-> l, error |-> e] : l, e \in BOOLEAN}
PullStreams ==
    {[lines |-> ls, breaks |-> b] :
        ls \in UNION {[1..n -> PullLines] : n \in 0..MaxLines}, b \in BOOLEAN}

\* No sandbox call in progress, no container; no file operation yet.
DockerIdle == Daemon(FALSE, TRUE, TRUE, [n \in Names |-> NoContainer], SandboxPorts, SandboxPorts)

(***************************************************************************)
(* A sandbox container's filesystem.  A location is the sequence of names  *)
(* from the root; a path is a location or is relative to the working       *)
(* directory of the container's commands, /workspace.  File contents are   *)
(* sequences of byte values.                                               *)
(***************************************************************************)
Path(abs, parts) == [abs |-> abs, parts |-> parts]
Workdir == <<"workspace">>

Dir(loc) == [loc |-> loc, kind |-> "dir", bytes |-> <<>>]
File(loc, bytes) == [loc |-> loc, kind |-> "file", bytes |-> bytes]

\* A value a sandbox operation returns: True / False, bytes, a listing, or
\* the exit code of a command.
BoolV(flag) == [kind |-> "bool", flag |-> flag, bytes |-> <<>>, code |-> 0]
BytesV(bytes) == [kind |-> "bytes", flag |-> FALSE, bytes |-> bytes, code |-> 0]
ListV(n) == [kind |-> "list", flag |-> FALSE, bytes |-> <<>>, code |-> n]
ExitV(code) == [kind |-> "exit", flag |-> FALSE, bytes |-> <<>>, code |-> code]
NoValue == [kind |-> "none", flag |-> FALSE, bytes |-> <<>>, code |-> 0]

\* The frame of a file or process operation that has not started.
NoOp ==
    [op |-> "none",
     path |-> Path(TRUE, <<>>),   \* the path argument
     content |-> <<>>,            \* the bytes argument of an upload
     log |-> <<>>,                \* calls made on the container, in order
     outcome |-> "none",          \* "return" | "raise"
     value |-> NoValue,
     error |-> "",
     client_error |-> FALSE,      \* ghost: a call on the container raised
     nonzero |-> FALSE,           \* ghost: a command in the container exited non-zero
     put_failed |-> FALSE]        \* ghost: put_archive reported failure

Container_fs(files) ==
    [files |-> files,       \* the directories and files in the container
     frame |-> NoOp,        \* the operation that ran last
     uploaded |-> <<>>,     \* <<[path, content]>> of an upload that returned
                            \* True and that nothing has touched since
     ops |-> 0]             \* operations run so far

FsIdle == Container_fs({Dir(Workdir)})

(***************************************************************************)
(* The connection singleton's world: the class and instance attributes of  *)
(* PostgresConnection, what the environment holds for it (DATABASE_URL,    *)
(* the migration file), and the tasks of one event loop.  A task is at a   *)
(* suspension point (an await that yields to the loop), idle, or done.     *)
(***************************************************************************)
Tasks == 1..MaxTasks
NoTask == 0
NoPool == 0

IdleTask ==
    [pc |-> "idle",        \* idle | create_pool | acquire | execute | lock | done
     how |-> "",           \* "initialize" or "pool": what the task called
     outcome |-> "none",   \* none | return | raise
     value |-> NoPool,     \* the pool the pool property returned
     migrated |-> FALSE,   \* the task entered _run_migrations
     i |-> 0]              \* statements this task has submitted

Postgres(url_set, file_exists, read_ok, statements) ==
    [url_set |-> url_set,            \* config.DATABASE_URL is set
     file_exists |-> file_exists,    \* os.path.exists(migration_file)
     read_ok |-> read_ok,            \* open() and read() of the file succeed
     statements |-> statements,      \* len(statements) of the script
     initialized |-> FALSE,          \* _instance._initialized
     pool |-> NoPool,                \* _instance._pool
     migration_done |-> FALSE,       \* PostgresConnection._migration_done
     migration_lock |-> NoTask,      \* holder of PostgresConnection._migration_lock
     thread_blocked |-> FALSE,       \* the loop's thread waits in Lock.acquire()
     pools_created |-> 0,            \* create_pool calls that returned a pool
     migrations |-> 0,               \* runs of _run_migrations begun
     submitted |-> 0,                \* statements handed to conn.execute
     failed |-> 0,                   \* statements conn.execute raised on
     task |-> [t \in Tasks |-> IdleTask]]

PgIdle == Postgres(TRUE, TRUE, TRUE, 0)

\* _split_sql_statements: the script and the list returned for it
SqlIdle ==
    [phase |-> "idle",       \* idle | split
     content |-> <<>>,       \* sql_content, a sequence of characters
     statements |-> <<>>,    \* the list returned
     pieces |-> <<>>,        \* every stripped stmt the function looked at, kept or not
     cuts |-> {}]            \* positions of the semicolons it split at

(***************************************************************************)
(* SpecFilters: every filter method chained on a select, then executed.    *)
(***************************************************************************)
InitFilters ==
    /\ builder = NewBuilder(TRUE)
    /\ table = SampleTable
    /\ sent = <<>>
    /\ result = NoResult
    /\ phase = "building"
    /\ ports = PortsIdle
    /\ docker = DockerIdle
    /\ fs = FsIdle
    /\ pg = PgIdle
    /\ script = SqlIdle

NextFilters ==
    \/ \E op \in SimpleOps \ {"contains", "contained_by"}, v \in Ints :
          filter_method(op, "status", v)
    \/ \E op \in {"contains", "contained_by"}, v \in {DictV(1), IntV(1)} :
          filter_method(op, "sandbox", v)
    \/ \E v \in FilterValues : is_("status", v)
    \/ \E v \in FilterValues : not_is_("status", v)
    \/ \E vs \in InLists : in_("status", vs)
    \/ \E vs \in InLists : not_in_("status", vs)
    \/ \E path \in Paths : jsonb_eq("sandbox", path, IntV(1))
    \/ ExecuteCall

SpecFilters == InitFilters /\ [][NextFilters]_vars

\* Placeholders of a WHERE clause in order of appearance.
WherePlaceholders(conditions) ==
    Concat([i \in 1..Len(conditions) |-> conditions[i].ph])

\* The number of parameters the claim assigns to one filter.
ClaimedParams(f) ==
    CASE f.op \in {"in", "not_in"} -> Len(f.values)
      [] f.op \in {"is", "is_not"} /\ f.value = None -> 0
      [] OTHER -> 1

\* C1: for every filter chain, the placeholders of the WHERE clause are
\* $1..$k in order of appearance, without gap or repeat, k is the length of
\* the parameter list, and each filter contributes one parameter, an in/not_in
\* filter one per list element, an is/is_not NULL filter and an empty list none.
C1_PlaceholdersSequential ==
    LET w == build_where_clause(builder.filters)
        k == Len(w.params)
    IN /\ WherePlaceholders(w.conditions) = [i \in 1..k |-> i]
       /\ k = SeqSum([i \in 1..Len(builder.filters) |-> ClaimedParams(builder.filters[i])])
       /\ \A i \in 1..Len(sent) :
             WherePlaceholders(sent[i].stmt.conditions) = [j \in 1..Len(sent[i].params) |-> j]

\* C1 witness: a statement went out whose chain mixes a list filter of two
\* values with a filter that has no parameter.
C1_Witness ==
    /\ phase = "executed"
    /\ Len(sent) > 0
    /\ \E i, j \in 1..Len(builder.filters) :
          /\ builder.filters[i].op \in {"in", "not_in"}
          /\ Len(builder.filters[i].values) = 2
          /\ ClaimedParams(builder.filters[j]) = 0

\* C8: no statement sent to the connection carries a JSONB path key with a
\* character outside the safe set, and the compared value is a parameter.
C8_PathKeyValidated ==
    \A i \in 1..Len(sent) :
       \A j \in 1..Len(sent[i].stmt.conditions) :
          LET c == sent[i].stmt.conditions[j]
          IN c.sql = "->>=" => SafePath(c.path) /\ Len(c.ph) = 1

(***************************************************************************)
(* SpecSelect: select chains with pagination, ordering and the single /    *)
(* maybe_single flags, executed against tables of 0..MaxRows rows.         *)
(***************************************************************************)
SelectTables ==
    UNION {{[i \in 1..n |-> TableRow(IntV(i), st[i], None, None)] :
              st \in [1..n -> {IntV(1), None}]} : n \in 0..MaxRows}

InitSelect ==
    /\ builder \in {NewBuilder(pool) : pool \in BOOLEAN}
    /\ table \in SelectTables
    /\ sent = <<>>
    /\ result = NoResult
    /\ phase = "building"
    /\ ports = PortsIdle
    /\ docker = DockerIdle
    /\ fs = FsIdle
    /\ pg = PgIdle
    /\ script = SqlIdle

NextSelect ==
    \/ select("exact")
    \/ filter_method("eq", "status", IntV(1))
    \/ in_("status", <<>>)
    \/ not_in_("status", <<>>)
    \/ builder.order_by = <<>> /\ order("id", TRUE)
    \/ \E n \in 0..MaxPage : limit(n)
    \/ \E n \in 0..MaxPage : offset(n)
    \/ \E a, b \in 0..MaxPage : range(a, b)
    \/ single
    \/ maybe_single
    \/ ExecuteCall

SpecSelect == InitSelect /\ [][NextSelect]_vars

\* The rows of the table the chain's filters match, in the chain's order.
Matching ==
    LET w == build_where_clause(builder.filters)
    IN SortRows(RowsWhere(table, w.conditions, w.params), builder.order_by)

\* The rows the chain's pagination leaves of them.
MatchingPage == Page(Matching, SelectPaging(builder).limit, SelectPaging(builder).offset)

SelectExecuted == phase = "executed" /\ builder.operation = "select"

\* C2 as stated: with single() in the chain, execute() raises NotFound when
\* no row matches and otherwise returns the first matching row unwrapped,
\* whatever else is in the chain (here on a builder that has a pool and a
\* connection that does not fail).
C2_SingleAsStated ==
    SelectExecuted /\ builder.single /\ builder.pool /\ ~result.conn_error =>
       IF Matching = <<>>
       THEN result.outcome = "raise" /\ result.error = "NotFound"
       ELSE result.outcome = "return" /\ result.value.data = RowData(Matching[1])

\* C2 amended: on a builder that has a pool, with single() in the chain and a
\* connection that does not fail, execute() raises NotFound exactly when the
\* chain's pagination leaves no matching row, and otherwise returns one row
\* unwrapped, the first of the page; with no offset and no zero limit in
\* effect that is the first matching row.
C2_SingleOnPage ==
    SelectExecuted /\ builder.single /\ builder.pool /\ ~result.conn_error =>
       /\ IF MatchingPage = <<>>
          THEN result.outcome = "raise" /\ result.error = "NotFound"
          ELSE /\ result.outcome = "return"
               /\ result.value.data.shape = "row"
               /\ result.value.data.rows = <<MatchingPage[1]>>
       /\ (~IsSet(builder.range_start) /\ builder.offset_val \in {NoInt, Some(0)}
              /\ builder.limit_val # Some(0) /\ Matching # <<>>
           => result.value.data = RowData(Matching[1]))

\* C2 witness: single() executed where two rows match and the first one came
\* back, and (in another chain) where none matched.
C2_Witness ==
    /\ SelectExecuted /\ builder.single /\ builder.pool
    /\ Len(Matching) = 2
    /\ builder.order_by # <<>>
    /\ result.outcome = "return"
    /\ result.value.data = RowData(Matching[1])

\* C3: with maybe_single() in the chain and no matching row, execute()
\* returns a result whose data is None; with a matching row it returns that
\* row unwrapped.
C3_MaybeSingleNone ==
    SelectExecuted /\ builder.maybe_single /\ ~builder.single /\ builder.pool
       /\ ~result.conn_error =>
       /\ result.outcome = "return"
       /\ IF MatchingPage = <<>>
          THEN result.value.data = NoneData
          ELSE result.value.data = RowData(MatchingPage[1])

\* The fragment an empty list filter compiles to: FALSE for in, TRUE for
\* not_in, no placeholder, no parameter, and the connection reads it so.
EmptyListsCompile ==
    LET w == build_where_clause(builder.filters)
    IN \A i \in 1..Len(builder.filters) :
          LET f == builder.filters[i] IN
          f.op \in {"in", "not_in"} /\ f.values = <<>> =>
             /\ w.conditions[i].ph = <<>>
             /\ w.conditions[i].sql = (IF f.op = "in" THEN "FALSE" ELSE "TRUE")
             /\ Len(w.params) = Len(build_where_clause(SubSeq(builder.filters, 1, i - 1)).params)
                                 + Len(build_where_clause(SubSeq(builder.filters, i + 1,
                                                          Len(builder.filters))).params)
             /\ \A r \in 1..Len(table) :
                   CondHolds(w.conditions[i], w.params, table[r]) = (f.op = "not_in")

OnlyEmptyIn ==
    /\ Len(builder.filters) = 1
    /\ builder.filters[1].op = "in"
    /\ builder.filters[1].values = <<>>

\* C5 as stated: an empty in list compiles to FALSE and an empty not_in list
\* to TRUE with no parameter, and a select whose only filter is an empty in
\* list returns zero rows with count 0 and does not raise.
C5_EmptyInAsStated ==
    /\ EmptyListsCompile
    /\ (SelectExecuted /\ OnlyEmptyIn /\ ~result.conn_error =>
          /\ result.outcome = "return"
          /\ result.value = PostgresQueryResult(ListData(<<>>), 0))

\* C5 amended: the same, for a select chain that does not call single()
\* (with single() the empty result raises the NotFound error).
C5_EmptyInNoSingle ==
    /\ EmptyListsCompile
    /\ (SelectExecuted /\ OnlyEmptyIn /\ ~builder.single
           /\ ~result.conn_error =>
          /\ result.outcome = "return"
          /\ result.value = PostgresQueryResult(ListData(<<>>), 0))
    /\ (SelectExecuted /\ OnlyEmptyIn /\ builder.single /\ builder.pool
           /\ ~result.conn_error =>
          result.outcome = "raise" /\ result.error = "NotFound")

\* C5 witness: a select whose only filter is an empty in list was sent to a
\* table that has rows, asked for an exact count, and returned nothing.
C5_Witness ==
    /\ SelectExecuted /\ OnlyEmptyIn /\ ~builder.single /\ builder.pool
    /\ builder.count_mode = "exact"
    /\ Len(table) > 0
    /\ Len(sent) = 2
    /\ result.outcome = "return"
    /\ result.value.count = 0

\* C9: when execute() runs, a range and a limit/offset are never both set on
\* the descriptor.
C9_OnePaginationMode ==
    phase = "executed" =>
       ~(/\ IsSet(builder.range_start) \/ IsSet(builder.range_end)
         /\ IsSet(builder.limit_val) \/ IsSet(builder.offset_val))

(***************************************************************************)
(* SpecExec: the five operations and rpc, against a table that the         *)
(* mutations change, on a connection that may fail.                        *)
(***************************************************************************)
Datetimes == {NaiveDt(12), AwareDt(12, 0), AwareDt(12, 8)}

\* Payload rows: ordered mappings whose first column is the key id, one
\* whose first column is not, and the empty mapping.
KeyedRows ==
    {<<Item("id", IntV(1))>>}
    \cup {<<Item("id", IntV(1)), Item("status", IntV(s))>> : s \in 1..MaxVal}
    \cup {<<Item("id", IntV(1)), Item("ts", d)>> : d \in Datetimes}
    \cup {<<Item("id", IntV(1)), Item("sandbox", DictV(1))>>}

OtherRows == {<<Item("status", IntV(1)), Item("id", IntV(1))>>, <<>>}

\* The n-row payload whose i-th row has key i.
Batch(n) == [i \in 1..n |-> <<Item("id", IntV(i)), Item("status", IntV(1))>>]

Payloads ==
    {<<r>> : r \in KeyedRows \cup OtherRows}
    \cup {Batch(n) : n \in 2..MaxPayload}
    \cup {<<>>}

\* update() payloads: one mapping of column to value.
UpdatePayloads ==
    {<<Item("status", IntV(s))>> : s \in 1..MaxVal}
    \cup {<<Item("ts", d)>> : d \in Datetimes}
    \cup {<<Item("status", IntV(1)), Item("ts", AwareDt(12, 8))>>, <<>>}

Returnings == {"representation", "minimal"}

InitExec ==
    /\ builder \in {NewBuilder(pool) : pool \in BOOLEAN}
    /\ table \in {<<>>, <<TableRow(IntV(1), IntV(1), None, None)>>}
    /\ sent = <<>>
    /\ result = NoResult
    /\ phase = "building"
    /\ ports = PortsIdle
    /\ docker = DockerIdle
    /\ fs = FsIdle
    /\ pg = PgIdle
    /\ script = SqlIdle

\* A chain of SpecExec names its operation first and then at most one filter.
First == builder.calls = 0

NextExec ==
    \/ First /\ select("none")
    \/ First /\ \E data \in Payloads, r \in Returnings : insert(data, r)
    \/ First /\ \E data \in UpdatePayloads, r \in Returnings : update(data, r)
    \/ First /\ \E data \in Payloads, r \in Returnings : upsert(data, r)
    \/ First /\ \E r \in Returnings : delete(r)
    \/ builder.calls = 1 /\ \E v \in Ints : filter_method("eq", "id", v)
    \/ builder.calls > 0 /\ ExecuteCall
    \/ First /\ \E params \in {<<>>, <<IntV(1)>>} : RpcCall(params)
    \/ NewQuery

SpecExec == InitExec /\ [][NextExec]_vars

\* The key value a payload row carries in its first column.
KeyOf(row) == row[1].value

\* C4: after upsert executions on a table keyed on the payload's first
\* column, each key the payload carried has exactly one row, and that row's
\* other columns hold the values of the last row that carried the key.
C4_UpsertIdempotent ==
    phase = "executed" /\ builder.operation = "upsert" /\ builder.pool
       /\ result.error # "connection"
       /\ (\A n \in 1..Len(builder.data) :
              builder.data[n] # <<>> /\ builder.data[n][1].column = "id") =>
       \A k \in 1..Len(builder.data) :
          LET row == builder.data[k]
              last == \A m \in (k + 1)..Len(builder.data) :
                         KeyOf(builder.data[m]) # KeyOf(row)
              held == {i \in 1..Len(table) : table[i]["id"] = KeyOf(row)}
          IN last =>
                /\ Cardinality(held) = 1
                /\ \A i \in held : \A j \in 2..Len(row) :
                      table[i][row[j].column] = Stored(UpsertValue(row[j].value))

\* C6: an error the connection raises while a statement runs reaches the
\* caller of execute() or rpc() as an exception, never as a normal result.
C6_NoSwallowedError ==
    result.conn_error => result.outcome = "raise" /\ result.error \in ConnErrors

\* The timezone-aware UTC value of a datetime: a naive one tagged with its
\* clock unchanged, an aware one moved to offset 0.
UtcOf(v) == IF v.kind = "naive_dt" THEN AwareDt(v.v, 0) ELSE AwareDt(v.v - v.off, 0)

IsDatetime(v) == v.kind \in {"naive_dt", "aware_dt"}

\* C7: every datetime payload value bound by insert, update or upsert is
\* bound as its timezone-aware UTC value.
C7_DatetimesBoundUtc ==
    phase = "executed" /\ builder.operation \in {"insert", "update", "upsert"} =>
       \A i \in 1..Len(sent) :
          LET row == IF builder.operation = "update" THEN builder.data[1]
                     ELSE builder.data[i]
              base == Len(sent[i].params) - Len(row)
          IN \A j \in 1..Len(row) :
                IsDatetime(row[j].value) =>
                   sent[i].params[base + j] = UtcOf(row[j].value)

(***************************************************************************)
(* _find_available_port                                                    *)
(***************************************************************************)
\* container.attrs['NetworkSettings']['Ports']: the host ports bound
AttrsPorts(c) == IF c.status \in UpStatuses THEN {c.host_port} ELSE {}

\* The docker_ports set the function collects: nothing when the client or the
\* listing fails, and nothing from a container whose reload() fails or whose
\* status the list filter leaves out.
DockerPorts(w) ==
    IF ~w.daemon_up THEN {}
    ELSE UNION {AttrsPorts(w.containers[i]) :
                   i \in {j \in 1..Len(w.containers) :
                             /\ w.containers[j].status \in {"running", "created", "restarting"}
                             /\ w.containers[j].reload_ok}}

\* The body of the scan loop for one candidate: skipped when Docker holds
\* it, otherwise bound on 127.0.0.1 and then on 0.0.0.0.
PortPasses(port, docker_ports, w) ==
    IF port \in docker_ports THEN FALSE
    ELSE port \in w.bind_lo /\ port \in w.bind_any

\* The scan loop from port to last: it returns at the first candidate that
\* passes, NoInt when every candidate fails.
ScanPorts(port, last, docker_ports, w) ==
    LET tried(p) == \A q \in port..(p - 1) : ~PortPasses(q, docker_ports, w)
    IN IF \E p \in port..last : tried(p) /\ PortPasses(p, docker_ports, w)
       THEN Some(CHOOSE p \in port..last : tried(p) /\ PortPasses(p, docker_ports, w))
       ELSE NoInt

find_available_port(start_port, max_attempts, w) ==
    ScanPorts(start_port, start_port + max_attempts - 1, DockerPorts(w), w)

FindPortCall(start_port, max_attempts) ==
    /\ ports.phase = "idle"
    /\ LET answer == find_available_port(start_port, max_attempts, ports)
       IN ports' = [ports EXCEPT !.phase = "called",
                                 !.start_port = start_port,
                                 !.max_attempts = max_attempts,
                                 !.answer = answer,
                                 !.raised = (answer = NoInt)]
    /\ UNCHANGED <<builder, table, sent, result, phase, docker, fs, pg, script>>

\* The caller goes on; the world is as it was.
FindPortDone ==
    /\ ports.phase = "called"
    /\ ports' = [ports EXCEPT !.phase = "idle", !.start_port = 0, !.max_attempts = 0,
                              !.answer = NoInt, !.raised = FALSE]
    /\ UNCHANGED <<builder, table, sent, result, phase, docker, fs, pg, script>>

(***************************************************************************)
(* SpecPort: one allocation in every small world.                          *)
(***************************************************************************)
\* All of the universe, or all but one port.
AllButOne == {PortUniverse} \cup {PortUniverse \ {p} : p \in PortUniverse}

Worlds ==
    {World(up, cs, lo, any) :
        up \in BOOLEAN,
        cs \in {<<>>} \cup {<<Container(st, hp, ok)>> :
                               st \in Statuses, hp \in PortUniverse, ok \in BOOLEAN},
        lo \in AllButOne, any \in AllButOne}

InitPort ==
    /\ builder = NewBuilder(TRUE)
    /\ table = <<>>
    /\ sent = <<>>
    /\ result = NoResult
    /\ phase = "building"
    /\ ports \in Worlds
    /\ docker = DockerIdle
    /\ fs = FsIdle
    /\ pg = PgIdle
    /\ script = SqlIdle

NextPort ==
    \/ \E start_port \in 1..MaxStart, max_attempts \in 1..MaxAttempts :
          FindPortCall(start_port, max_attempts)
    \/ FindPortDone

SpecPort == InitPort /\ [][NextPort]_vars

\* The host ports Docker containers publish right now.
Published(w) == UNION {AttrsPorts(w.containers[i]) : i \in 1..Len(w.containers)}

\* C10: whatever the start port and the state of the Docker daemon, the port
\* returned is not one a Docker container currently publishes.
C10_NeverPublishedPort ==
    ports.phase = "called" /\ IsSet(ports.answer) => ports.answer[1] \notin Published(ports)

(***************************************************************************)
(* create_sandbox, get_or_start_sandbox, delete_sandbox                    *)
(***************************************************************************)
Logged(f, call) == [f EXCEPT !.log = Append(@, call)]

\* A call ends: it returns value, or raises an error of the kind given.
Returned(f, value) == [f EXCEPT !.pc = "done", !.outcome = "return", !.value = value]
Raised(f, error) == [f EXCEPT !.pc = "done", !.outcome = "raise", !.value = error]

\* get_docker_client(): the singleton, made on first use.  The global is
\* assigned from docker.from_env() before ping() is called on it.
get_docker_client(d, from_env_ok, ping_ok) ==
    IF d.client THEN d
    ELSE IF ~from_env_ok THEN d
    ELSE [d EXCEPT !.client = TRUE, !.pinged = ping_ok]

\* get_docker_client() raises: from_env() or ping() did
ClientRaises(d, from_env_ok, ping_ok) == ~d.client /\ ~(from_env_ok /\ ping_ok)

\* The manager's calls on a daemon that is down fail in from_env().
ClientFails(d) == ClientRaises(d, d.daemon_up, d.daemon_up)

\* One line of the pull stream: whether it arrived after pull_timeout
\* seconds, and whether it carries an 'error' key.
PullLine(late, error) == [late |-> late, error |-> error]
\* The stream: its lines, and whether iterating it raises after them.
PullStream(lines, breaks) == [lines |-> lines, breaks |-> breaks]

\* The loop with the check of last_error after it left out.
RECURSIVE MutPullLoop(_, _, _)
MutPullLoop(stream, k, last_error) ==
    IF k > Len(stream.lines)
    THEN IF stream.breaks THEN "PullFailed" ELSE "ok"
    ELSE IF stream.lines[k].late THEN "PullTimeout"
    ELSE MutPullLoop(stream, k + 1, last_error \/ stream.lines[k].error)

\* The loop over the stream: TimeoutError at the first late line, the
\* stream's own exception, and last_error when the stream is over.
RECURSIVE PullLoop(_, _, _)
PullLoop(stream, k, last_error) ==
    IF k > Len(stream.lines)
    THEN IF stream.breaks THEN "PullFailed"
         ELSE IF last_error THEN "PullFailed" ELSE "ok"
    ELSE IF stream.lines[k].late THEN "PullTimeout"
    ELSE PullLoop(stream, k + 1, last_error \/ stream.lines[k].error)

PullOutcome(stream) == PullLoop(stream, 1, FALSE)

RECURSIVE SeqOf(_)
SeqOf(S) == IF S = {} THEN <<>>
            ELSE LET x == CHOOSE y \in S : TRUE IN <<x>> \o SeqOf(S \ {x})

\* What _find_available_port reads of the daemon and the host.
PortView(d, list_ok) ==
    LET bindings == {q \in Names \X UNION {d.containers[m].host_ports : m \in Names} :
                        q[2] \in d.containers[q[1]].host_ports}
    IN World(list_ok,
             SeqOf({Container(d.containers[q[1]].status, q[2], TRUE) : q \in bindings}),
             d.free_lo, d.free_any)

\* The host ports that containers hold on the daemon.
Held(d) == UNION {IF d.containers[n].status \in UpStatuses
                  THEN d.containers[n].host_ports ELSE {} : n \in Names}

\* except Exception: list the running containers of that name, stop and
\* remove them; whatever fails there is passed over.
Cleanup(d, name, f) ==
    IF d.containers[name].status = "running"
    THEN [d EXCEPT !.containers[name] = NoContainer,
                   !.frame = Logged(Logged(Logged(f, "list"), "stop"), "remove")]
    ELSE [d EXCEPT !.frame = Logged(f, "list")]

Handled(d, name, f, error, api) ==
    LET c == Cleanup(d, name, f)
    IN [c EXCEPT !.frame = [Raised(c.frame, error) EXCEPT !.api_error = api]]

CreateFaults == {"none", "images.get", "list", "run", "run_created"}

\* From the port scan on: four ports, containers.run, then the readiness poll.
CreateContainer(d, name, f, fault) ==
    LET w == PortView(d, fault # "list")
        found == [i \in Services |-> find_available_port(ServiceStart(i), DefaultMaxAttempts, w)]
    IN IF \E i \in Services : found[i] = NoInt
       THEN Handled(d, name, f, "NoPort", FALSE)
       ELSE LET port_map == [i \in Services |-> found[i][1]]
                asked == {port_map[i] : i \in Services}
                g == [Logged(f, "run") EXCEPT !.port_map = port_map]
            IN IF fault = "run"
               THEN Handled(d, name, g, "APIError", TRUE)
               ELSE IF fault = "run_created" \/ asked \cap Held(d) # {}
               THEN \* created, but its ports could not be bound: not started
                    Handled([d EXCEPT !.containers[name] =
                                         [status |-> "created", host_ports |-> asked]],
                            name, g, "APIError", TRUE)
               ELSE [d EXCEPT !.containers[name] =
                                 [status |-> "running", host_ports |-> asked],
                              !.frame = [g EXCEPT !.pc = "polling"]]

create_sandbox(d0, name, stream, fault) ==
    LET f0 == [NoFrame EXCEPT !.op = "create", !.target = name]
    IN IF ClientFails(d0)
       THEN [d0 EXCEPT !.frame = [Raised(f0, "DockerUnavailable") EXCEPT !.api_error = TRUE]]
       ELSE
       LET d == get_docker_client(d0, d0.daemon_up, d0.daemon_up)
           f1 == Logged(f0, "images.get")
       IN IF fault = "images.get" THEN Handled(d, name, f1, "APIError", TRUE)
          ELSE IF d.image THEN CreateContainer(d, name, f1, fault)
          ELSE LET f2 == [Logged(f1, "pull") EXCEPT !.pull = <<stream>>]
               IN IF PullOutcome(stream) # "ok"
                  THEN Handled(d, name, f2, PullOutcome(stream), FALSE)
                  ELSE CreateContainer([d EXCEPT !.image = TRUE], name, f2, fault)

\* The status test with only stopped containers started.
MutNeedsStart(status) == status = "exited"

\* if container.status != 'running'
NeedsStart(status) == status # "running"

GetFaults == {"none", "get", "start", "vanish_before_start"}

get_or_start_sandbox(d0, container_id, fault) ==
    LET f0 == [NoFrame EXCEPT !.op = "get_or_start", !.target = container_id]
    IN IF ClientFails(d0)
       THEN [d0 EXCEPT !.frame = [Raised(f0, "DockerUnavailable") EXCEPT !.api_error = TRUE]]
       ELSE
       LET d == get_docker_client(d0, d0.daemon_up, d0.daemon_up)
           container == d.containers[container_id]
           f1 == [Logged(f0, "get") EXCEPT !.status_seen = container.status]
           f2 == Logged(f1, "start")
       IN IF fault = "get"
          THEN [d EXCEPT !.frame = [Raised(Logged(f0, "get"), "APIError") EXCEPT !.api_error = TRUE]]
          ELSE IF container.status = "absent"
          THEN [d EXCEPT !.frame = Raised(f1, "NotFound")]
          ELSE IF ~NeedsStart(container.status)
          THEN [d EXCEPT !.frame = Returned(f1, "sandbox")]
          ELSE IF fault = "vanish_before_start"
          THEN [d EXCEPT !.containers[container_id] = NoContainer,
                         !.frame = Raised(f2, "NotFound")]
          ELSE IF fault = "start" \/ container.status = "paused"
          THEN \* the daemon refuses: a paused container cannot be started
               [d EXCEPT !.frame = [Raised(f2, "APIError") EXCEPT !.api_error = TRUE]]
          ELSE [d EXCEPT !.containers[container_id].status = "running",
                         !.frame = [f2 EXCEPT !.pc = "polling"]]

\* except docker.errors.NotFound in delete_sandbox, taken as a failure
MutNotFoundOnDelete(f) == Raised(f, "NotFound")

\* except docker.errors.NotFound in delete_sandbox: already gone is success
NotFoundOnDelete(f) == Returned(f, "True")

DeleteFaults == {"none", "get", "stop", "remove", "vanish_before_stop", "vanish_before_remove"}

delete_sandbox(d0, container_id, fault) ==
    LET f0 == [NoFrame EXCEPT !.op = "delete", !.target = container_id]
    IN IF ClientFails(d0)
       THEN [d0 EXCEPT !.frame = [Raised(f0, "DockerUnavailable") EXCEPT !.api_error = TRUE]]
       ELSE
       LET d == get_docker_client(d0, d0.daemon_up, d0.daemon_up)
           container == d.containers[container_id]
           f1 == [Logged(f0, "get") EXCEPT !.status_seen = container.status]
           stops == container.status = "running"
           f2 == IF stops THEN Logged(f1, "stop") ELSE f1
           f3 == Logged(f2, "remove")
           gone == [d EXCEPT !.containers[container_id] = NoContainer]
       IN IF fault = "get"
          THEN [d EXCEPT !.frame = [Raised(Logged(f0, "get"), "APIError") EXCEPT !.api_error = TRUE]]
          ELSE IF container.status = "absent"
          THEN [d EXCEPT !.frame = NotFoundOnDelete(f1)]
          ELSE IF stops /\ fault = "vanish_before_stop"
          THEN [gone EXCEPT !.frame = NotFoundOnDelete(f2)]
          ELSE IF stops /\ fault = "stop"
          THEN [d EXCEPT !.frame = [Raised(f2, "APIError") EXCEPT !.api_error = TRUE]]
          ELSE IF fault = "vanish_before_remove"
          THEN [gone EXCEPT !.frame = NotFoundOnDelete(f3)]
          ELSE IF fault = "remove"
          THEN [d EXCEPT !.containers[container_id].status =
                            IF stops THEN "exited" ELSE container.status,
                         !.frame = [Raised(f3, "APIError") EXCEPT !.api_error = TRUE]]
          ELSE [gone EXCEPT !.frame = Returned(f3, "True")]

\* A round in which an exception of the probe is not caught.
Mutwait_for_container_ready(f, probe) ==
    LET g == [Logged(f, "probe") EXCEPT !.attempt = @ + 1,
                                        !.probe_raised = @ \/ probe = "raises"]
    IN IF probe = "ready" THEN Returned([g EXCEPT !.ready = TRUE], "sandbox")
       ELSE IF probe = "raises" THEN Raised(g, "APIError")
       ELSE IF g.attempt >= max_retries THEN Returned(g, "sandbox")
       ELSE g

\* One round of _wait_for_container_ready: reload and probe, then sleep.
\* The poll ends at the first probe that succeeds or after max_retries
\* rounds, and the caller wraps the container either way.
wait_for_container_ready(f, probe) ==
    LET g == [Logged(f, "probe") EXCEPT !.attempt = @ + 1,
                                        !.probe_raised = @ \/ probe = "raises"]
    IN IF probe = "ready" THEN Returned([g EXCEPT !.ready = TRUE], "sandbox")
       ELSE IF g.attempt >= max_retries THEN Returned(g, "sandbox")
       ELSE g

Probes == {"ready", "not_ready", "raises"}

Unmoved == UNCHANGED <<builder, table, sent, result, phase, ports, fs, pg, script>>

CreateCall ==
    /\ docker.frame.pc = "idle"
    /\ \E name \in Names, fault \in CreateFaults,
          stream \in (IF docker.image THEN {PullStream(<<>>, FALSE)} ELSE PullStreams) :
          /\ docker.containers[name].status = "absent"
          /\ docker' = create_sandbox(docker, name, stream, fault)
    /\ Unmoved

ProbeStep ==
    /\ docker.frame.pc = "polling"
    /\ \E probe \in Probes :
          docker' = [docker EXCEPT !.frame = wait_for_container_ready(docker.frame, probe)]
    /\ Unmoved

GetOrStartCall ==
    /\ docker.frame.pc = "idle"
    /\ \E container_id \in Names, fault \in GetFaults :
          docker' = get_or_start_sandbox(docker, container_id, fault)
    /\ Unmoved

DeleteCall ==
    /\ docker.frame.pc = "idle"
    /\ \E container_id \in Names, fault \in DeleteFaults :
          docker' = delete_sandbox(docker, container_id, fault)
    /\ Unmoved

\* The caller has its answer; the daemon stays as the call left it.
CallReturns ==
    /\ docker.frame.pc = "done"
    /\ docker' = [docker EXCEPT !.frame = NoFrame]
    /\ Unmoved

(***************************************************************************)
(* SpecSandbox: the three manager calls, one at a time, on a daemon that   *)
(* may hold a container already.                                           *)
(***************************************************************************)
BasePorts == {ServiceStart(i) : i \in Services}

FreeSets == {SandboxPorts \ B : B \in {{}, {port_6080}, {port_6080 + k : k \in 0..MaxOffset}}}

Daemons ==
    {Daemon(cl[1], cl[2], image,
            [n \in Names |-> IF n = "a" /\ st # "absent"
                             THEN [status |-> st, host_ports |-> BasePorts]
                             ELSE NoContainer],
            lo, any) :
        cl \in {<<TRUE, TRUE>>, <<FALSE, TRUE>>, <<FALSE, FALSE>>},
        image \in BOOLEAN,
        st \in {"absent", "running", "exited", "paused", "created"},
        lo \in FreeSets,
        any \in {SandboxPorts, SandboxPorts \ {port_8080}}}

InitSandbox ==
    /\ builder = NewBuilder(TRUE)
    /\ table = <<>>
    /\ sent = <<>>
    /\ result = NoResult
    /\ phase = "building"
    /\ ports = PortsIdle
    /\ docker \in Daemons
    /\ fs = FsIdle
    /\ pg = PgIdle
    /\ script = SqlIdle

NextSandbox ==
    \/ CreateCall
    \/ GetOrStartCall
    \/ DeleteCall
    \/ ProbeStep
    \/ CallReturns

SpecSandbox == InitSandbox /\ [][NextSandbox]_vars

Frame == docker.frame
Count(log, call) == Cardinality({k \in 1..Len(log) : log[k] = call})

\* The pull went wrong: a line came after the deadline, a line reported an
\* error, or the stream itself broke.
PullWentWrong(stream) ==
    \/ stream.breaks
    \/ \E k \in 1..Len(stream.lines) : stream.lines[k].late \/ stream.lines[k].error

\* C11: when the image is absent and the pull times out or reports an
\* error, create_sandbox raises, the pull was attempted once, containers.run
\* was not called and no container of the attempted name exists.
C11_PullFailureIsFatal ==
    Frame.op = "create" /\ Frame.pull # <<>> /\ PullWentWrong(Frame.pull[1]) =>
       /\ Frame.pc = "done"
       /\ Frame.outcome = "raise"
       /\ Count(Frame.log, "pull") = 1
       /\ Count(Frame.log, "run") = 0
       /\ docker.containers[Frame.target].status = "absent"

\* C11 witness: a pull that reported an error on its first line and went on
\* to a second line, on a daemon that already runs another container.
C11_Witness ==
    /\ Frame.op = "create" /\ Frame.pull # <<>>
    /\ Len(Frame.pull[1].lines) = 2
    /\ Frame.pull[1].lines[1].error /\ ~Frame.pull[1].lines[2].error
    /\ ~Frame.pull[1].lines[1].late /\ ~Frame.pull[1].lines[2].late
    /\ ~Frame.pull[1].breaks
    /\ Frame.outcome = "raise"
    /\ \E n \in Names : docker.containers[n].status = "running"

\* call comes before every later call in the log, and is in it
Before2(log, first, later) ==
    /\ Count(log, first) > 0
    /\ \A i \in 1..Len(log) : log[i] = later => \E j \in 1..(i - 1) : log[j] = first

\* C12: unless the daemon fails for a reason of its own, every
\* delete_sandbox call returns True, on an id with no container as on a
\* container that disappears under it, and leaves no container of that id;
\* a running container is stopped before it is removed.
C12_DeleteIdempotent ==
    Frame.op = "delete" /\ ~Frame.api_error =>
       /\ Frame.pc = "done"
       /\ Frame.outcome = "return" /\ Frame.value = "True"
       /\ docker.containers[Frame.target].status = "absent"
       /\ Frame.status_seen = "running" => Before2(Frame.log, "stop", "remove")
       /\ Frame.status_seen = "absent" => Frame.log = <<"get">>

\* C12 witness: a running container was looked up, stopped and then removed,
\* and the call returned True.
C12_Witness ==
    /\ Frame.op = "delete" /\ ~Frame.api_error
    /\ Frame.status_seen = "running"
    /\ Frame.log = <<"get", "stop", "remove">>
    /\ Frame.outcome = "return"
    /\ docker.containers[Frame.target].status = "absent"

SpecSandboxFair == SpecSandbox /\ WF_vars(ProbeStep)

PollBounded ==
    /\ Frame.attempt <= max_retries
    /\ Count(Frame.log, "probe") = Frame.attempt
    /\ Frame.pc = "polling" => ~Frame.ready /\ Frame.attempt < max_retries
    /\ Frame.pc = "done" /\ Frame.attempt >= 1 =>
          /\ Frame.op \in {"create", "get_or_start"}
          /\ Frame.outcome = "return" /\ Frame.value = "sandbox"
          /\ Frame.ready \/ Frame.attempt = max_retries

\* C14: the readiness poll makes at most max_retries probes, goes on only
\* while none has succeeded, and always ends; whether a probe succeeded,
\* failed every time or raised, the call that polls returns a sandbox.
C14_PollTerminates ==
    /\ []PollBounded
    /\ (Frame.pc = "polling") ~>
          (Frame.pc = "done" /\ Frame.outcome = "return" /\ Frame.value = "sandbox")

\* C14 witness: create_sandbox returned after max_retries probes of which
\* none succeeded and some raised.
C14_Witness ==
    /\ Frame.op = "create" /\ Frame.pc = "done"
    /\ Frame.attempt = max_retries /\ ~Frame.ready /\ Frame.probe_raised
    /\ Frame.outcome = "return"

(***************************************************************************)
(* DockerFilesystem, DockerProcess and the file methods of DockerSandbox   *)
(***************************************************************************)
\* os.path.dirname and os.path.basename
dirname(path) == Path(path.abs, SubSeq(path.parts, 1, Len(path.parts) - 1))
basename(path) == path.parts[Len(path.parts)]

\* Where a command run in the container finds a path, and where the
\* archive API finds one: the first from the working directory, the second
\* from the root.
Resolve(path) == IF path.abs THEN path.parts ELSE Workdir \o path.parts
FromRoot(path) == path.parts

IsDir(files, loc) == loc = <<>> \/ Dir(loc) \in files
IsFile(files, loc) == \E e \in files : e.loc = loc /\ e.kind = "file"
Exists(files, loc) == IsDir(files, loc) \/ IsFile(files, loc)
BytesAt(files, loc) == (CHOOSE e \in files : e.loc = loc /\ e.kind = "file").bytes

Prefixes(loc) == {SubSeq(loc, 1, n) : n \in 1..Len(loc)}

\* mkdir -p: fails when a name on the way is a file
MkdirOk(files, loc) == \A pre \in Prefixes(loc) : ~IsFile(files, pre)
Mkdir(files, loc) ==
    IF MkdirOk(files, loc) THEN files \cup {Dir(pre) : pre \in Prefixes(loc)} ELSE files

\* The archive of one member the upload builds: TarInfo(name), size and data.
Tar(name, content) == [name |-> name, size |-> Len(content), data |-> content]

\* put_archive(dir, tar): the directory has to exist, and the member cannot
\* replace a directory.
ExtractOk(files, dir, tar) ==
    IsDir(files, dir) /\ ~IsDir(files, Append(dir, tar.name))
Extract(files, dir, tar) ==
    {e \in files : e.loc # Append(dir, tar.name)}
       \cup {File(Append(dir, tar.name), SubSeq(tar.data, 1, tar.size))}

Called(f, call) == [f EXCEPT !.log = Append(@, call)]
Gives(f, value) == [f EXCEPT !.outcome = "return", !.value = value]
Throws(f, error) == [f EXCEPT !.outcome = "raise", !.error = error]
\* a call on the container raised (the client, the daemon, the container gone)
ClientError(f) == [f EXCEPT !.client_error = TRUE]
NonZero(f) == [f EXCEPT !.nonzero = TRUE]

Op(op, path, content) == [NoOp EXCEPT !.op = op, !.path = path, !.content = content]

\* What an operation leaves: the files, the frame, and whether the last
\* verified upload still stands.
Left(c, files, frame, uploaded) ==
    [files |-> files, frame |-> frame, uploaded |-> uploaded, ops |-> c.ops]

\* DockerFilesystem.upload_file.  fault names the call that raises, put the
\* value put_archive returns.
upload_file(c, content, container_path, fault, put) ==
    LET f0 == Op("upload_file", container_path, content)
        dir == dirname(container_path)
        makes == dir.parts # <<>>
        f1 == IF makes THEN Called(f0, "mkdir") ELSE f0
        made == IF makes THEN Mkdir(c.files, Resolve(dir)) ELSE c.files
        f2 == IF makes /\ ~MkdirOk(c.files, Resolve(dir)) THEN NonZero(f1) ELSE f1
        tar == Tar(basename(container_path), content)
        f3 == Called(f2, "put_archive")
        f4 == Called(f3, "test -f")
    IN IF makes /\ fault = "mkdir"
       THEN Left(c, c.files, Throws(ClientError(f1), "client"), <<>>)
       ELSE IF fault = "put_archive" \/ ~ExtractOk(made, FromRoot(dir), tar)
       THEN Left(c, made, Throws(ClientError(f3), "client"), <<>>)
       ELSE IF ~put
       THEN Left(c, made, Throws([f3 EXCEPT !.put_failed = TRUE], "put_archive"), <<>>)
       ELSE LET put_files == Extract(made, FromRoot(dir), tar) IN
            IF fault = "test -f"
            THEN Left(c, put_files, Throws(ClientError(f4), "client"), <<>>)
            ELSE IF ~IsFile(put_files, Resolve(container_path))
            THEN IF fault = "ls"
                 THEN Left(c, put_files,
                           Throws(ClientError(NonZero(Called(f4, "ls"))), "client"), <<>>)
                 ELSE Left(c, put_files,
                           Throws(NonZero(Called(f4, "ls")), "not created"), <<>>)
            ELSE Left(c, put_files, Gives(f4, BoolV(TRUE)),
                      <<[path |-> container_path, content |-> content]>>)

\* DockerFilesystem.is_directory and is_file
is_directory(c, container_path, fault) ==
    LET f == Called(Op("is_directory", container_path, <<>>), "test -d")
    IN IF fault = "test -d" THEN Gives(ClientError(f), BoolV(FALSE))
       ELSE IF IsDir(c.files, Resolve(container_path)) THEN Gives(f, BoolV(TRUE))
       ELSE Gives(NonZero(f), BoolV(FALSE))

is_file(c, container_path, fault) ==
    LET f == Called(Op("is_file", container_path, <<>>), "test -f")
    IN IF fault = "test -f" THEN Gives(ClientError(f), BoolV(FALSE))
       ELSE IF IsFile(c.files, Resolve(container_path)) THEN Gives(f, BoolV(TRUE))
       ELSE Gives(NonZero(f), BoolV(FALSE))

\* DockerFilesystem.download_file
download_file(c, container_path, fault) ==
    LET d == is_directory(c, container_path, fault)
        f0 == [d EXCEPT !.op = "download_file", !.outcome = "none", !.value = NoValue]
        f1 == Called(f0, "cat")
    IN IF d.value.flag THEN Throws(f0, "is a directory")
       ELSE IF fault = "cat" THEN Throws(ClientError(f1), "client")
       ELSE IF ~IsFile(c.files, Resolve(container_path))
       THEN Throws(NonZero(f1), "not found")
       ELSE Gives(f1, BytesV(BytesAt(c.files, Resolve(container_path))))

\* DockerFilesystem.list_files: the entries of the directory, or the empty
\* list whenever anything is amiss.
Children(files, loc) == {e \in files : Len(e.loc) = Len(loc) + 1
                                          /\ SubSeq(e.loc, 1, Len(loc)) = loc}

list_files(c, path, fault, running) ==
    LET f0 == Called(Op("list_files", path, <<>>), "reload")
        f1 == IF fault = "reload" THEN ClientError(f0) ELSE f0
        f2 == Called(f1, "ls")
    IN IF fault = "reload NotFound" THEN Gives(ClientError(f0), ListV(0))
       ELSE IF ~running THEN Gives(f1, ListV(0))
       ELSE IF fault = "ls" THEN Gives(ClientError(f2), ListV(0))
       ELSE IF ~Exists(c.files, Resolve(path)) THEN Gives(NonZero(f2), ListV(0))
       ELSE IF IsFile(c.files, Resolve(path)) THEN Gives(f2, ListV(0))
       ELSE Gives(f2, ListV(Cardinality(Children(c.files, Resolve(path)))))

\* DockerFilesystem.delete_file: rm -f, which fails on a directory
delete_file(c, container_path, fault) ==
    LET f == Called(Op("delete_file", container_path, <<>>), "rm -f")
        loc == Resolve(container_path)
    IN IF fault = "rm -f" THEN Left(c, c.files, Throws(ClientError(f), "client"), <<>>)
       ELSE IF IsDir(c.files, loc) THEN Left(c, c.files, Gives(NonZero(f), BoolV(FALSE)), <<>>)
       ELSE Left(c, {e \in c.files : e.loc # loc}, Gives(f, BoolV(TRUE)), <<>>)

\* DockerFilesystem.create_folder, with its default permissions; chmod is
\* the exit code chmod ends with.
create_folder(c, folder_path, fault, chmod) ==
    LET f == Called(Op("create_folder", folder_path, <<>>), "mkdir")
        loc == Resolve(folder_path)
        g == Called(f, "chmod")
    IN IF fault = "mkdir" THEN Left(c, c.files, Throws(ClientError(f), "client"), <<>>)
       ELSE IF ~MkdirOk(c.files, loc)
       THEN Left(c, c.files, Throws(NonZero(f), "mkdir failed"), <<>>)
       ELSE IF fault = "chmod"
       THEN Left(c, Mkdir(c.files, loc), Throws(ClientError(g), "client"), <<>>)
       ELSE IF chmod # 0
       THEN Left(c, Mkdir(c.files, loc), Gives(NonZero(g), BoolV(TRUE)), <<>>)
       ELSE Left(c, Mkdir(c.files, loc), Gives(g, BoolV(TRUE)), <<>>)

\* DockerFilesystem.set_file_permissions
set_file_permissions(c, file_path, fault) ==
    LET f == Called(Op("set_file_permissions", file_path, <<>>), "chmod")
    IN IF fault = "chmod" THEN Gives(ClientError(f), BoolV(FALSE))
       ELSE IF ~Exists(c.files, Resolve(file_path)) THEN Gives(NonZero(f), BoolV(FALSE))
       ELSE Gives(f, BoolV(TRUE))

\* DockerSandbox.execute_command and DockerProcess.exec: code is the exit
\* code the command ends with.
execute_command(c, fault, code) ==
    LET f == Called(Op("execute_command", Path(FALSE, <<>>), <<>>), "bash")
    IN IF fault = "bash" THEN Throws(ClientError(f), "client")
       ELSE IF code # 0 THEN Gives(NonZero(f), ExitV(code))
       ELSE Gives(f, ExitV(0))

exec(c, fault, code) ==
    LET f == Called(Op("exec", Path(FALSE, <<>>), <<>>), "bash")
    IN IF fault = "bash" THEN Throws(ClientError(f), "client")
       ELSE IF code # 0 THEN Gives(NonZero(f), ExitV(code))
       ELSE Gives(f, ExitV(0))

\* DockerSandbox.upload_file: the local file, when it is an archive, is put
\* into the directory of container_path; local is <<>> when the file cannot be
\* opened, <<archive>> otherwise.
sandbox_upload_file(c, local, container_path, fault, put) ==
    LET f0 == Op("sandbox.upload_file", container_path, <<>>)
        f1 == Called(f0, "put_archive")
        dir == FromRoot(dirname(container_path))
    IN IF local = <<>> THEN Left(c, c.files, Throws(f0, "open"), <<>>)
       ELSE IF fault = "put_archive" \/ ~ExtractOk(c.files, dir, local[1])
       THEN Left(c, c.files, Throws(ClientError(f1), "client"), <<>>)
       ELSE IF ~put
       THEN Left(c, c.files, Gives([f1 EXCEPT !.put_failed = TRUE], BoolV(TRUE)), <<>>)
       ELSE Left(c, Extract(c.files, dir, local[1]), Gives(f1, BoolV(TRUE)), <<>>)

(***************************************************************************)
(* SpecFs: file and process operations on one sandbox, one after another.  *)
(***************************************************************************)
Contents == {<<>>} \cup {<<b>> : b \in 0..MaxByte} \cup {<<MaxByte, 0>>}

FilePaths == {Path(TRUE, <<"workspace", "f">>), Path(FALSE, <<"f">>),
              Path(TRUE, <<"d", "f">>), Path(FALSE, <<"d", "f">>)}
FolderPaths == {Path(TRUE, <<"d">>), Path(FALSE, <<"d">>)}

FsUnmoved == UNCHANGED <<builder, table, sent, result, phase, ports, docker, pg, script>>

\* One more operation on the sandbox, leaving it as next.
FsStep(next) ==
    /\ fs.ops < MaxOps
    /\ fs' = [next EXCEPT !.ops = fs.ops + 1]
    /\ FsUnmoved

\* An operation that reads: the files and the standing upload stay.
Reads(frame) == FsStep([fs EXCEPT !.frame = frame])
\* An operation on the path that may have changed what is there.
Touches(frame) == FsStep([fs EXCEPT !.frame = frame, !.uploaded = <<>>])

\* The paths an operation is tried on: any path first, then the path of
\* the operation before.
Focus(paths) ==
    IF fs.frame.op = "none" \/ fs.frame.path.parts = <<>> THEN paths
    ELSE paths \cap {fs.frame.path}

\* What the container's calls can do to an upload: the call that raises,
\* and the value put_archive returns.
UploadEnvs == {<<fault, TRUE>> : fault \in {"none", "mkdir", "put_archive", "test -f", "ls"}}
                 \cup {<<"none", FALSE>>}

UploadCall ==
    \E content \in Contents, path \in Focus(FilePaths), env \in UploadEnvs :
       FsStep(upload_file(fs, content, path, env[1], env[2]))

IsFileCall ==
    \E path \in Focus(FilePaths \cup FolderPaths), fault \in {"none", "test -f"} :
       Reads(is_file(fs, path, fault))

IsDirectoryCall ==
    \E path \in Focus(FilePaths \cup FolderPaths), fault \in {"none", "test -d"} :
       Reads(is_directory(fs, path, fault))

DownloadCall ==
    \E path \in Focus(FilePaths \cup FolderPaths), fault \in {"none", "test -d", "cat"} :
       Reads(download_file(fs, path, fault))

ListFilesCall ==
    \E path \in Focus(FilePaths \cup FolderPaths),
       env \in {<<fault, TRUE>> : fault \in {"none", "reload", "reload NotFound", "ls"}}
                  \cup {<<"none", FALSE>>} :
       Reads(list_files(fs, path, env[1], env[2]))

DeleteFileCall ==
    \E path \in Focus(FilePaths \cup FolderPaths), fault \in {"none", "rm -f"} :
       FsStep(delete_file(fs, path, fault))

CreateFolderCall ==
    \E path \in Focus(FolderPaths),
       env \in {<<"none", 0>>, <<"none", 1>>, <<"mkdir", 0>>, <<"chmod", 0>>} :
       FsStep(create_folder(fs, path, env[1], env[2]))

SetPermissionsCall ==
    \E path \in Focus(FilePaths), fault \in {"none", "chmod"} :
       Touches(set_file_permissions(fs, path, fault))

\* A command may do anything to the files; here it leaves them, and the
\* standing upload no longer counts as untouched.
ExecuteCommandCall ==
    \E env \in {<<"none", 0>>, <<"none", 1>>, <<"bash", 0>>} :
       Touches(execute_command(fs, env[1], env[2]))

ExecCall ==
    \E env \in {<<"none", 0>>, <<"none", 1>>, <<"bash", 0>>} :
       Touches(exec(fs, env[1], env[2]))

SandboxUploadCall ==
    \E local \in {<<>>, <<Tar("f", <<MaxByte>>)>>}, path \in Focus(FilePaths),
       env \in {<<"none", TRUE>>, <<"none", FALSE>>, <<"put_archive", TRUE>>} :
       FsStep(sandbox_upload_file(fs, local, path, env[1], env[2]))

\* The sandbox as an operation may find it: the working directory alone,
\* or with files and directories put there before.
OldBytes == <<0>>
Sandboxes ==
    {Container_fs({Dir(Workdir)} \cup extra) :
        extra \in {{},
                   {File(<<"workspace", "f">>, OldBytes)},
                   {Dir(<<"d">>)},
                   {Dir(<<"d">>), Dir(<<"workspace", "d">>),
                    File(<<"workspace", "d", "f">>, OldBytes)},
                   {File(<<"d">>, OldBytes)},
                   {Dir(<<"workspace", "f">>)}}}

InitFs ==
    /\ builder = NewBuilder(TRUE)
    /\ table = <<>>
    /\ sent = <<>>
    /\ result = NoResult
    /\ phase = "building"
    /\ ports = PortsIdle
    /\ docker = DockerIdle
    /\ fs \in Sandboxes
    /\ pg = PgIdle
    /\ script = SqlIdle

NextFs ==
    \/ UploadCall
    \/ IsFileCall
    \/ IsDirectoryCall
    \/ DownloadCall
    \/ ListFilesCall
    \/ DeleteFileCall
    \/ CreateFolderCall
    \/ SetPermissionsCall
    \/ ExecuteCommandCall
    \/ ExecCall
    \/ SandboxUploadCall

SpecFs == InitFs /\ [][NextFs]_vars

\* An upload of this path returned True, nothing has touched the path
\* since, and the operation that ran last was on it and met no client error.
Standing ==
    /\ fs.uploaded # <<>>
    /\ fs.frame.path = fs.uploaded[1].path
    /\ ~fs.frame.client_error

\* C15: after upload_file(content, path) returned True and with nothing
\* else touching the path, is_file(path) returns True and
\* download_file(path) returns exactly the uploaded bytes.
C15_UploadRoundTrip ==
    /\ fs.frame.op = "is_file" /\ Standing => fs.frame.value = BoolV(TRUE)
    /\ fs.frame.op = "download_file" /\ Standing =>
          /\ fs.frame.outcome = "return"
          /\ fs.frame.value = BytesV(fs.uploaded[1].content)

\* C16: in every file and process operation of a sandbox, an exception of
\* a call on the container or a non-zero exit code of the command run in it
\* makes the operation raise.
C16_SandboxErrorsRaised ==
    fs.frame.client_error \/ fs.frame.nonzero => fs.frame.outcome = "raise"

\* C20: an upload, by DockerFilesystem.upload_file or by
\* DockerSandbox.upload_file, returns True only when put_archive reported
\* success and an existence probe of the target, run after it, succeeded.
C20_UploadProbed ==
    fs.frame.op \in {"upload_file", "sandbox.upload_file"}
       /\ fs.frame.outcome = "return" /\ fs.frame.value = BoolV(TRUE) =>
       /\ ~fs.frame.put_failed
       /\ Len(fs.frame.log) >= 2
       /\ fs.frame.log[Len(fs.frame.log)] = "test -f"
       /\ fs.frame.log[Len(fs.frame.log) - 1] = "put_archive"
       /\ IsFile(fs.files, Resolve(fs.frame.path))

(***************************************************************************)
(* SpecUpdate: an update followed by a chain of filters, then executed.    *)
(***************************************************************************)
InitUpdate ==
    /\ builder = NewBuilder(TRUE)
    /\ table = SampleTable
    /\ sent = <<>>
    /\ result = NoResult
    /\ phase = "building"
    /\ ports = PortsIdle
    /\ docker = DockerIdle
    /\ fs = FsIdle
    /\ pg = PgIdle
    /\ script = SqlIdle

Updating == builder.operation = "update"

NextUpdate ==
    \/ First /\ \E data \in UpdatePayloads, r \in Returnings : update(data, r)
    \/ Updating /\ \E v \in Ints : filter_method("eq", "status", v)
    \/ Updating /\ filter_method("contains", "sandbox", DictV(1))
    \/ Updating /\ \E v \in {None, IntV(1)} : is_("status", v)
    \/ Updating /\ \E vs \in InLists : in_("id", vs)
    \/ Updating /\ \E vs \in InLists : not_in_("id", vs)
    \/ Updating /\ jsonb_eq("sandbox", IdPath, IntV(1))
    \/ Updating /\ ExecuteCall

SpecUpdate == InitUpdate /\ [][NextUpdate]_vars

\* The values one filter is meant to bind, in the order of its placeholders.
IntendedValues(f) ==
    CASE f.op \in {"in", "not_in"} -> f.values
      [] f.op \in {"is", "is_not"} /\ f.value = None -> <<>>
      [] f.op \in {"contains", "contained_by"} -> <<JsonDumpsUnlessStr(f.value)>>
      [] OTHER -> <<f.value>>

\* The values bound to a sequence of placeholders; a placeholder without an
\* argument binds nothing.
BoundTo(ph, params) ==
    [j \in 1..Len(ph) |-> IF ph[j] \in 1..Len(params) THEN <<params[ph[j]]>> ELSE <<>>]

UpdateSent == phase = "executed" /\ builder.operation = "update" /\ sent # <<>>

\* C17: for every update sent with k filter parameters and m payload columns,
\* the WHERE placeholders are $1..$k, the SET placeholders are $k+1..$k+m, the
\* bound list is the filter values followed by the payload values, and every
\* placeholder of the statement is bound to the value of its own filter or
\* payload column.
C17_UpdateParamsPositional ==
    UpdateSent =>
       LET stmt == sent[1].stmt
           params == sent[1].params
           filters == builder.filters
           row == builder.data[1]
           filter_values == Concat([i \in 1..Len(filters) |-> IntendedValues(filters[i])])
           payload_values == [j \in 1..Len(row) |-> UpdateValue(row[j].value)]
           k == Len(filter_values)
           m == Len(row)
       IN /\ Len(sent) = 1
          /\ WherePlaceholders(stmt.conditions) = [i \in 1..k |-> i]
          /\ [j \in 1..Len(stmt.set_parts) |-> stmt.set_parts[j].ph] = [j \in 1..m |-> k + j]
          /\ params = filter_values \o payload_values
          /\ Len(stmt.conditions) = Len(filters)
          /\ \A i \in 1..Len(filters) :
                BoundTo(stmt.conditions[i].ph, params)
                   = [j \in 1..Len(IntendedValues(filters[i])) |-> <<IntendedValues(filters[i])[j]>>]
          /\ \A j \in 1..m :
                /\ stmt.set_parts[j].column = row[j].column
                /\ BoundTo(<<stmt.set_parts[j].ph>>, params) = <<<<UpdateValue(row[j].value)>>>>

\* C17 witness: an update of two columns went out behind a list filter of two
\* values and a filter of one value, so k = 3 and m = 2.
C17_Witness ==
    /\ UpdateSent
    /\ Len(builder.data[1]) = 2
    /\ Len(builder.filters) = 2
    /\ builder.filters[1].op = "in" /\ Len(builder.filters[1].values) = 2
    /\ builder.filters[2].op = "eq"
    /\ Len(sent[1].params) = 5

\* C18: whenever create_sandbox reaches containers.run, the four host ports of
\* the port mapping it passes are pairwise distinct, whatever ports the host
\* and the daemon hold.
C18_PortsDistinct ==
    Frame.op = "create" /\ Count(Frame.log, "run") > 0 =>
       /\ DOMAIN Frame.port_map = Services
       /\ \A i, j \in Services : i # j => Frame.port_map[i] # Frame.port_map[j]

\* C18 witness: containers.run was called with a mapping whose first port is
\* not its service's base port, the scan having skipped ports in use.
C18_Witness ==
    /\ Frame.op = "create"
    /\ Count(Frame.log, "run") > 0
    /\ DOMAIN Frame.port_map = Services
    /\ Frame.port_map[1] > port_6080

\* The window of candidates of the call in progress.
Window == ports.start_port..(ports.start_port + ports.max_attempts - 1)

\* A port no container publishes and both addresses accept.
Passes(p) == p \notin Published(ports) /\ p \in ports.bind_lo /\ p \in ports.bind_any

\* C19: _find_available_port(start, max_attempts) returns the lowest port of
\* [start, start + max_attempts) that is not published by Docker and can be
\* bound on 127.0.0.1 and on 0.0.0.0, never a port outside the window, and it
\* raises when no port of the window passes both checks.
C19_LowestPassingPort ==
    ports.phase = "called" =>
       /\ IsSet(ports.answer) => ports.answer[1] \in Window
       /\ IF \E p \in Window : Passes(p)
          THEN /\ IsSet(ports.answer)
               /\ Passes(ports.answer[1])
               /\ \A q \in Window : q < ports.answer[1] => ~Passes(q)
          ELSE ports.raised /\ ~IsSet(ports.answer)

(***************************************************************************)
(* PostgresConnection: initialize, the pool property and _run_migrations,  *)
(* as coroutines of one event loop.  A task runs from one suspension point *)
(* to the next without interruption; threading.Lock.acquire() on a held    *)
(* lock does not suspend the task, it stops the loop's thread.             *)
(***************************************************************************)
TaskReturns(p, t, value) ==
    [p EXCEPT !.task[t].pc = "done", !.task[t].outcome = "return", !.task[t].value = value]

TaskRaises(p, t) ==
    [p EXCEPT !.task[t].pc = "done", !.task[t].outcome = "raise", !.task[t].value = NoPool]

\* What follows a return of initialize(): the caller of initialize() has its
\* return; the pool property goes on to hand out self._pool.
AfterInitialize(p, t) ==
    IF p.task[t].how = "pool"
    THEN IF p.pool = NoPool THEN TaskRaises(p, t) ELSE TaskReturns(p, t, p.pool)
    ELSE TaskReturns(p, t, NoPool)

\* _run_migrations has returned: the flag is set and the with block left.
MigrationReturned(p, t) ==
    AfterInitialize([p EXCEPT !.migration_done = TRUE, !.migration_lock = NoTask], t)

\* _run_migrations up to its first suspension, the acquire of a connection:
\* a missing file returns, a failing read is caught and logged.
run_migrations(p, t) ==
    LET q == [p EXCEPT !.migrations = @ + 1, !.task[t].migrated = TRUE]
    IN IF ~q.file_exists THEN MigrationReturned(q, t)
       ELSE IF ~q.read_ok THEN MigrationReturned(q, t)
       ELSE [q EXCEPT !.task[t].pc = "acquire"]

\* Lock.acquire() with every call going through at once.
MutLockFree(p) == TRUE

\* _migration_lock can be taken without waiting
LockFree(p) == p.migration_lock = NoTask

\* initialize(), from the flag check to the end of the guarded section or
\* to the suspension inside it.
MigrationSection(p, t) ==
    IF p.migration_done THEN AfterInitialize(p, t)
    ELSE IF ~LockFree(p)
    THEN [p EXCEPT !.thread_blocked = TRUE, !.task[t].pc = "lock"]
    ELSE LET q == [p EXCEPT !.migration_lock = t]
         IN IF q.migration_done
            THEN AfterInitialize([q EXCEPT !.migration_lock = NoTask], t)
            ELSE run_migrations(q, t)

\* initialize() up to the await of create_pool
initialize(p, t) ==
    IF p.initialized THEN AfterInitialize(p, t)
    ELSE IF ~p.url_set THEN TaskRaises(p, t)
    ELSE [p EXCEPT !.task[t].pc = "create_pool"]

\* The pool property
pool(p, t) ==
    IF ~p.initialized THEN initialize(p, t) ELSE AfterInitialize(p, t)

Running == ~pg.thread_blocked

PgUnmoved == UNCHANGED <<builder, table, sent, result, phase, ports, docker, fs, script>>

\* A task calls initialize().
InitializeCall(t) ==
    /\ Running
    /\ pg.task[t].pc = "idle"
    /\ pg' = initialize([pg EXCEPT !.task[t].how = "initialize"], t)
    /\ PgUnmoved

\* A task reads the pool property.
PoolCall(t) ==
    /\ Running
    /\ pg.task[t].pc = "idle"
    /\ pg' = pool([pg EXCEPT !.task[t].how = "pool"], t)
    /\ PgUnmoved

\* create_pool completes for a task: with a pool, which the task stores
\* before it goes on to the migration, or with an error.
CreatePoolDone(t, ok) ==
    /\ Running
    /\ pg.task[t].pc = "create_pool"
    /\ pg' = IF ok
             THEN MigrationSection([pg EXCEPT !.pool = pg.pools_created + 1,
                                              !.pools_created = @ + 1,
                                              !.initialized = TRUE], t)
             ELSE TaskRaises(pg, t)
    /\ PgUnmoved

\* pool.acquire() completes for the task inside _run_migrations.
AcquireDone(t, ok) ==
    /\ Running
    /\ pg.task[t].pc = "acquire"
    /\ pg' = IF ~ok \/ pg.statements = 0
             THEN MigrationReturned(pg, t)
             ELSE [pg EXCEPT !.task[t].pc = "execute"]
    /\ PgUnmoved

\* conn.execute(statement) completes; an error is logged and the loop goes on.
ExecuteDone(t, ok) ==
    /\ Running
    /\ pg.task[t].pc = "execute"
    /\ LET q == [pg EXCEPT !.submitted = @ + 1,
                           !.failed = IF ok THEN @ ELSE @ + 1,
                           !.task[t].i = @ + 1]
       IN pg' = IF q.task[t].i >= q.statements THEN MigrationReturned(q, t) ELSE q
    /\ PgUnmoved

\* The caller goes on and may call again.
CallerGoesOn(t) ==
    /\ Running
    /\ pg.task[t].pc = "done"
    /\ pg' = [pg EXCEPT !.task[t] = IdleTask]
    /\ PgUnmoved

Databases ==
    {Postgres(url_set, file_exists, read_ok, statements) :
        url_set \in BOOLEAN, file_exists \in BOOLEAN, read_ok \in BOOLEAN,
        statements \in 0..MaxStatements}

InitPg ==
    /\ builder = NewBuilder(TRUE)
    /\ table = <<>>
    /\ sent = <<>>
    /\ result = NoResult
    /\ phase = "building"
    /\ ports = PortsIdle
    /\ docker = DockerIdle
    /\ fs = FsIdle
    /\ pg \in Databases
    /\ script = SqlIdle

TaskStep(t) ==
    \/ \E ok \in BOOLEAN : CreatePoolDone(t, ok)
    \/ \E ok \in BOOLEAN : AcquireDone(t, ok)
    \/ \E ok \in BOOLEAN : ExecuteDone(t, ok)

NextPg ==
    \/ \E t \in Tasks : InitializeCall(t)
    \/ \E t \in Tasks : PoolCall(t)
    \/ \E t \in Tasks : TaskStep(t)
    \/ \E t \in Tasks : CallerGoesOn(t)

SpecPg == InitPg /\ [][NextPg]_vars

\* Every await of a task that the loop can resume is resumed.
SpecPgFair == SpecPg /\ \A t \in Tasks : WF_vars(TaskStep(t))

\* The pools handed out by the pool property to the callers that have their
\* return.
PoolsInUse ==
    {pg.task[t].value : t \in {u \in Tasks : /\ pg.task[u].pc = "done"
                                             /\ pg.task[u].how = "pool"
                                             /\ pg.task[u].outcome = "return"}}

\* C21: however the tasks that call initialize() or read the pool property
\* interleave at their suspension points, the pool is created once, and
\* every caller is handed that one pool.
C21_PoolCreatedOnce ==
    /\ pg.pools_created <= 1
    /\ Cardinality(PoolsInUse) <= 1
    /\ PoolsInUse \subseteq {pg.pool}

InMigration(t) == pg.task[t].pc \in {"acquire", "execute"}

\* C22: under every interleaving of initialize() calls the migration routine
\* runs at most once and never in two callers at a time, the caller inside it
\* holds the lock, and no caller that has left initialize() still holds it,
\* whether or not migration statements failed.
C22_MigrationSerialized ==
    /\ pg.migrations <= 1
    /\ Cardinality({t \in Tasks : InMigration(t)}) <= 1
    /\ \A t \in Tasks : InMigration(t) => pg.migration_lock = t
    /\ \A t \in Tasks : pg.task[t].pc \in {"idle", "done"} => pg.migration_lock # t

\* C22 witness: a caller has left initialize() after a migration in which a
\* statement failed, the lock is free again, and another caller is still
\* inside its own initialize().
C22_Witness ==
    \E t, u \in Tasks :
       /\ t # u
       /\ pg.task[t].pc = "done" /\ pg.task[t].migrated
       /\ pg.failed > 0
       /\ pg.migration_lock = NoTask
       /\ pg.task[u].pc = "create_pool"

Pending(t) == pg.task[t].pc \in {"create_pool", "acquire", "execute", "lock"}

\* C26: when several tasks of one event loop call initialize() before the
\* migration has completed, every call eventually returns or raises; none
\* waits forever on the migration lock.
C26_InitializeReturns ==
    \A t \in Tasks : Pending(t) ~> (pg.task[t].pc = "done")

\* C27: _migration_done is true only when every statement of the migration
\* script has been submitted: not when the file is missing, nor when reading
\* it or acquiring a connection failed.
C27_DoneOnlyAfterSubmitted ==
    pg.migration_done =>
       /\ pg.file_exists
       /\ pg.read_ok
       /\ pg.submitted = pg.statements

(***************************************************************************)
(* _split_sql_statements.  Text is a sequence of characters: "a" stands    *)
(* for a letter, " " and "\n" are the whitespace str.strip() removes.      *)
(***************************************************************************)
Chars == {"$", ";", "a", " ", "-", "\n"}
Whitespace == {" ", "\n"}

\* str.strip()
RECURSIVE LStrip(_)
LStrip(s) == IF s # <<>> /\ Head(s) \in Whitespace THEN LStrip(Tail(s)) ELSE s

RECURSIVE RStrip(_)
RStrip(s) ==
    IF s # <<>> /\ s[Len(s)] \in Whitespace THEN RStrip(SubSeq(s, 1, Len(s) - 1)) ELSE s

Strip(s) == RStrip(LStrip(s))

\* str.startswith
StartsWith(s, prefix) == Len(s) >= Len(prefix) /\ SubSeq(s, 1, Len(prefix)) = prefix

\* The inner while loop: the index of the next '$' at or after j, or
\* len(sql_content) + 1 when there is none.
NextDollar(sql_content, j) ==
    IF \E k \in j..Len(sql_content) : sql_content[k] = "$"
    THEN CHOOSE k \in j..Len(sql_content) :
            /\ sql_content[k] = "$"
            /\ \A m \in j..(k - 1) : sql_content[m] # "$"
    ELSE Len(sql_content) + 1

\* if stmt and not stmt.startswith('--')
Kept(stmt) == stmt # <<>> /\ ~StartsWith(stmt, <<"-", "-">>)

SplitStart ==
    [statements |-> <<>>, current_statement |-> <<>>, in_dollar_quote |-> FALSE,
     dollar_tag |-> <<>>, pieces |-> <<>>, cuts |-> {}]

\* A statement ends: stripped, and appended unless filtered out.
EndStatement(st, at) ==
    LET stmt == Strip(st.current_statement)
    IN [st EXCEPT !.statements = IF Kept(stmt) THEN Append(@, stmt) ELSE @,
                  !.pieces = Append(@, stmt),
                  !.current_statement = <<>>,
                  !.cuts = @ \cup at]

\* The outer while loop from index i (1-based) on.
RECURSIVE SplitLoop(_, _, _)
SplitLoop(sql_content, i, st) ==
    IF i > Len(sql_content)
    THEN EndStatement(st, {})
    ELSE LET j == NextDollar(sql_content, i + 1)
             closed == sql_content[i] = "$" /\ j <= Len(sql_content)
             found_tag == SubSeq(sql_content, i + 1, j - 1)
             through == [st EXCEPT !.current_statement = @ \o SubSeq(sql_content, i, j)]
         IN IF closed /\ ~st.in_dollar_quote
            THEN SplitLoop(sql_content, j + 1,
                           [through EXCEPT !.in_dollar_quote = TRUE, !.dollar_tag = found_tag])
            ELSE IF closed /\ found_tag = st.dollar_tag
            THEN SplitLoop(sql_content, j + 1,
                           [through EXCEPT !.in_dollar_quote = FALSE, !.dollar_tag = <<>>])
            ELSE IF ~st.in_dollar_quote /\ sql_content[i] = ";"
            THEN SplitLoop(sql_content, i + 1,
                           EndStatement([st EXCEPT !.current_statement = Append(@, ";")], {i}))
            ELSE SplitLoop(sql_content, i + 1,
                           [st EXCEPT !.current_statement = Append(@, sql_content[i])])

split_sql_statements(sql_content) == SplitLoop(sql_content, 1, SplitStart)

\* _run_migrations splits the script it has read.
SplitCall ==
    /\ script.phase = "idle"
    /\ LET r == split_sql_statements(script.content)
       IN script' = [script EXCEPT !.phase = "split", !.statements = r.statements,
                                   !.pieces = r.pieces, !.cuts = r.cuts]
    /\ UNCHANGED <<builder, table, sent, result, phase, ports, docker, fs, pg>>

Texts == UNION {[1..n -> Chars] : n \in 0..MaxText}

(***************************************************************************)
(* SpecSplit: one script of at most MaxText characters, split once.        *)
(***************************************************************************)
InitSplit ==
    /\ builder = NewBuilder(TRUE)
    /\ table = <<>>
    /\ sent = <<>>
    /\ result = NoResult
    /\ phase = "building"
    /\ ports = PortsIdle
    /\ docker = DockerIdle
    /\ fs = FsIdle
    /\ pg = PgIdle
    /\ script \in {[SqlIdle EXCEPT !.content = text] : text \in Texts}

NextSplit == SplitCall

SpecSplit == InitSplit /\ [][NextSplit]_vars

\* Characters a dollar-quote tag is made of.
TagChars == {"a"}

\* The $tag$ delimiter that starts at position i of text: a '$', tag
\* characters only, and a '$'; <<>> when none starts there.
DelimiterAt(text, i) ==
    IF /\ i \in 1..Len(text)
       /\ text[i] = "$"
       /\ \E j \in (i + 1)..Len(text) :
             text[j] = "$" /\ \A m \in (i + 1)..(j - 1) : text[m] \in TagChars
    THEN SubSeq(text, i, NextDollar(text, i + 1))
    ELSE <<>>

OccursAt(text, k, d) == k + Len(d) - 1 <= Len(text) /\ SubSeq(text, k, k + Len(d) - 1) = d

\* The semicolons of text from position i on: inside a dollar-quoted body
\* (between an opening delimiter and the next occurrence of the same
\* delimiter), and outside every body.  After a delimiter that is never
\* closed nothing is counted.
RECURSIVE Semicolons(_, _)
Semicolons(text, i) ==
    IF i > Len(text) THEN [inside |-> {}, outside |-> {}]
    ELSE LET d == DelimiterAt(text, i)
             from == i + Len(d)
             closes == {k \in from..Len(text) : OccursAt(text, k, d)}
         IN IF d = <<>>
            THEN LET rest == Semicolons(text, i + 1)
                 IN [rest EXCEPT !.outside = IF text[i] = ";" THEN @ \cup {i} ELSE @]
            ELSE IF closes = {} THEN [inside |-> {}, outside |-> {}]
            ELSE LET k == CHOOSE c \in closes : \A c2 \in closes : c <= c2
                     rest == Semicolons(text, k + Len(d))
                 IN [rest EXCEPT !.inside = @ \cup {m \in from..(k - 1) : text[m] = ";"}]

\* C23: _split_sql_statements never splits at a semicolon that lies between
\* an opening $tag$ delimiter and the next occurrence of the same delimiter,
\* and it does split at every semicolon outside the dollar-quoted bodies.
C23_DollarQuotesRespected ==
    script.phase = "split" =>
       LET s == Semicolons(script.content, 1)
       IN /\ s.inside \cap script.cuts = {}
          /\ s.outside \subseteq script.cuts

\* A line of a statement: the characters up to the first newline.
FirstLine(s) ==
    IF \E k \in 1..Len(s) : s[k] = "\n"
    THEN SubSeq(s, 1, (CHOOSE k \in 1..Len(s) : s[k] = "\n" /\ \A m \in 1..(k - 1) : s[m] # "\n") - 1)
    ELSE s

\* The statement has SQL text: a line that is neither blank, nor a comment,
\* nor the closing semicolon alone.
RECURSIVE HasSql(_)
HasSql(s) ==
    IF s = <<>> THEN FALSE
    ELSE LET line == Strip(FirstLine(s))
             rest == SubSeq(s, Len(FirstLine(s)) + 2, Len(s))
         IN \/ line # <<>> /\ line # <<";">> /\ ~StartsWith(line, <<"-", "-">>)
            \/ HasSql(rest)

\* s is t with some elements left out.
RECURSIVE IsSubSeq(_, _)
IsSubSeq(s, t) ==
    IF s = <<>> THEN TRUE
    ELSE IF t = <<>> THEN FALSE
    ELSE IF Head(s) = Head(t) THEN IsSubSeq(Tail(s), Tail(t))
    ELSE IsSubSeq(s, Tail(t))

\* C24: _split_sql_statements returns, in the order of the file, every
\* statement that contains SQL text, one that begins with a '--' comment
\* line included; it drops only empty and purely-comment statements.
C24_OnlyCommentsDropped ==
    script.phase = "split" =>
       /\ IsSubSeq(script.statements, script.pieces)
       /\ SelectSeq(script.statements, HasSql) = SelectSeq(script.pieces, HasSql)

(***************************************************************************)
(* SpecClient: get_docker_client called again and again, on a daemon that  *)
(* is up or down.  With the daemon down, docker.from_env() raises or       *)
(* returns a client whose ping() raises, by the version of the library.    *)
(***************************************************************************)
GetClientCall ==
    /\ docker.frame.pc = "idle"
    /\ \E from_env_ok \in (IF docker.daemon_up THEN {TRUE} ELSE BOOLEAN) :
          LET ping_ok == docker.daemon_up
              f0 == [NoFrame EXCEPT !.op = "get_docker_client"]
              f1 == IF docker.client THEN f0
                    ELSE IF from_env_ok THEN Logged(Logged(f0, "from_env"), "ping")
                    ELSE Logged(f0, "from_env")
              d == get_docker_client(docker, from_env_ok, ping_ok)
          IN docker' = [d EXCEPT !.frame =
                           IF ClientRaises(docker, from_env_ok, ping_ok)
                           THEN [Raised(f1, "DockerException") EXCEPT !.api_error = TRUE]
                           ELSE Returned(f1, "client")]
    /\ Unmoved

NextClient ==
    \/ GetClientCall
    \/ CallReturns

SpecClient == InitSandbox /\ [][NextClient]_vars

\* C28: in every sequence of get_docker_client calls, a call returns a
\* client only if a ping on that client has succeeded, and after a call that
\* raised the singleton is not left set.
C28_ClientVerified ==
    Frame.op = "get_docker_client" =>
       /\ Frame.outcome = "return" => docker.client /\ docker.pinged
       /\ Frame.outcome = "raise" => ~docker.client

\* C25: whenever create_sandbox raises, whichever step failed, no container
\* with the name it generated exists afterwards.
C25_NoContainerLeftBehind ==
    Frame.op = "create" /\ Frame.outcome = "raise" =>
       docker.containers[Frame.target].status = "absent"

\* The value a payload column is bound as, by operation.
Processed(v) == IF builder.operation = "insert" THEN InsertValue(v) ELSE UpsertValue(v)

\* Payload row j is in the table as this call wrote it.
InEffect(j) ==
    \E i \in 1..Len(table) :
       \A c \in 1..Len(builder.data[j]) :
          table[i][builder.data[j][c].column] = Stored(Processed(builder.data[j][c].value))

BatchExecuted ==
    /\ phase = "executed"
    /\ builder.operation \in {"insert", "upsert"}
    /\ builder.pool
    /\ Len(builder.data) > 1

\* C29: a multi-row insert or upsert goes out as one statement per row, in
\* payload order; when the statement for row k fails, rows 1..k-1 are in the
\* table and stay there, no statement for a later row is sent, and the call
\* raises.
C29_PerRowNoRollback ==
    BatchExecuted =>
       /\ Len(sent) <= Len(builder.data)
       /\ \A i \in 1..Len(sent) :
             /\ sent[i].stmt.columns = ColumnsOf(builder.data[i])
             /\ sent[i].params = [c \in 1..Len(builder.data[i]) |->
                                     Processed(builder.data[i][c].value)]
       /\ result.outcome = "return" => Len(sent) = Len(builder.data)
       /\ result.outcome = "raise" /\ result.error \in ConnErrors =>
             \A j \in 1..(Len(sent) - 1) : InEffect(j)
       /\ result.outcome = "return" => \A j \in 1..Len(builder.data) : InEffect(j)

\* C29 witness: the statement for the second row of an insert failed, after
\* the statement for the first row had added its row.
C29_Witness ==
    /\ BatchExecuted
    /\ builder.operation = "insert"
    /\ result.outcome = "raise"
    /\ Len(sent) = 2
    /\ InEffect(1)

(***************************************************************************)
(* SpecTwoCreates: two create_sandbox tasks of one event loop.  A call     *)
(* runs without suspension up to the await of _wait_for_container_ready;   *)
(* the second task's call runs while the first is suspended in its poll.   *)
(* The polls of the two tasks touch different containers and commute: the  *)
(* first task's are taken first.                                           *)
(***************************************************************************)
SecondCreateCall ==
    /\ docker.frame.pc = "polling"
    /\ docker.frame.op = "create"
    /\ docker.earlier = NoFrame
    /\ \E name \in Names, fault \in CreateFaults,
          stream \in (IF docker.image THEN {PullStream(<<>>, FALSE)} ELSE PullStreams) :
          /\ docker.containers[name].status = "absent"
          /\ docker' = create_sandbox([docker EXCEPT !.earlier = docker.frame],
                                      name, stream, fault)
    /\ Unmoved

EarlierProbeStep ==
    /\ docker.earlier.pc = "polling"
    /\ \E probe \in Probes :
          docker' = [docker EXCEPT !.earlier = wait_for_container_ready(docker.earlier, probe)]
    /\ Unmoved

NextTwoCreates ==
    \/ CreateCall
    \/ SecondCreateCall
    \/ EarlierProbeStep
    \/ docker.earlier.pc # "polling" /\ ProbeStep

SpecTwoCreates == InitSandbox /\ [][NextTwoCreates]_vars

\* The host ports a call passed to containers.run.
Asked(f) == IF Count(f.log, "run") > 0 THEN {f.port_map[i] : i \in DOMAIN f.port_map} ELSE {}

\* C30: within one event loop two concurrent create_sandbox tasks never pass
\* the same host port to containers.run.
C30_NoSharedPort ==
    docker.earlier.op = "create" /\ Frame.op = "create" =>
       Asked(docker.earlier) \cap Asked(Frame) = {}

====
